---- MODULE Spec2Model ----
(***************************************************************************)
(* The token explorer of prism-tooling: the extraction of CSS custom       *)
(* properties from stylesheet text (parseTokensCSS, parseCSSVarBlock),     *)
(* their classification (buildGroupedTokens) and the loading of the        *)
(* stylesheet (loadTokensFromCSS).  The palette explorer: the palette      *)
(* descriptors built from stylesheet text (parsePaletteDescriptors) and    *)
(* the loading of the stylesheet (loadTokens).                             *)
(*                                                                         *)
(* A JavaScript string is a sequence of one-character strings.  A          *)
(* JavaScript object is a sequence of entries [k, v] with distinct keys,   *)
(* in insertion order, which is the order Object.keys, Object.entries and  *)
(* the spread operator traverse it in (no key of this program is an        *)
(* integer index).                                                         *)
(***************************************************************************)
EXTENDS Integers, Sequences, FiniteSets, TLC

VARIABLES
  pc,               \* where the program stands
  mergedCSS,        \* the stylesheet text given to parseTokensCSS
  rawMap,           \* the result of parseTokensCSS: { root: {...}, <theme>: {...} }
  groupedTokens,    \* this.groupedTokens: { theme: { category: ... } }
  cssPathOverrides, \* this.cssPathOverrides
  assetCandidates,  \* what this.assets.buildCandidates(this.cssRelativePath) returns
  baseCandidates,   \* loadTokensFromCSS: the de-duplicated candidate list
  turn,             \* loadTokensFromCSS: the turn of the for loop in progress
  fetchLog,         \* loadTokensFromCSS: the attempts and their outcomes
  baseCSS,          \* loadTokensFromCSS: the text of the base stylesheet
  cssResolvedPath,  \* this.cssResolvedPath (null is the empty sequence)
  variantCSSParts,  \* loadTokensFromCSS: the texts to merge
  requested,        \* the URLs given to fetch, in the order of the calls
  loadingState,     \* the display style of the loading indicator
  errorBanner,      \* the error banner: its display style and its text
  responseText,     \* PalettesExplorerApp.loadTokens: the text of the stylesheet
  paletteDescriptors, \* PalettesExplorerApp: this.paletteDescriptors
  copyNotification, \* PalettesExplorerApp: the notification: display, message, error class
  notificationTimer, \* PalettesExplorerApp: whether this.notificationTimer is pending
  emptyState,       \* PalettesExplorerApp: the display style of the empty state
  paletteGrid,      \* PalettesExplorerApp: the display style of the palette grid
  consoleErrors,    \* PalettesExplorerApp: the messages of the errors given to console.error
  blockText,        \* parseCSSVarBlock: the argument block
  blockVars,        \* parseCSSVarBlock: the map returned
  currentTheme,     \* this.currentTheme of the token explorer
  localStorage,     \* the item 'prismTokensPrefs' of localStorage, if there is one
  storageThrows,    \* whether getItem and setItem of localStorage throw
  themeSelector,    \* the value of the element #theme-selector
  dataTheme,        \* the attribute data-theme of the document element, if set
  tokenListTheme,   \* the theme whose tokens renderAllTokens rendered last
  copyPromise,      \* per copy operation: the promise of its last call and of its clipboard write
  clipboard,        \* the text of the clipboard
  tokenNotification, \* TokenExplorerTool: the notification: display, message, error class
  tokenTimers,      \* TokenExplorerTool: the pending hide timers, each with the call that set it
  shown,            \* TokenExplorerTool: the number of calls of showCopyNotification so far
  buttonText,       \* ClipboardManager: the text of the hex and of the Looker button
  buttonTimers,     \* ClipboardManager: the pending timers of showSuccess, each with its button
  copies,           \* the number of copy operations called so far
  blockStart,       \* extractBlockAt: the argument startIdx
  blockContent,     \* parseTokensCSS: the text extractBlockAt returned
  fullPalette,      \* ColorPaletteApp.processActivePalette: the palette of the subcategory
  tintCount,        \* ColorPaletteApp.processActivePalette: state.tintCount
  activePalette,    \* ColorPaletteApp.processActivePalette: the colors selected
  tokenList,        \* TokenExplorerTool: the display style of the token list
  tokenEmptyState,  \* TokenExplorerTool: the display style of the empty state
  sideNav,          \* TokenExplorerTool: the links of the sidebar: label, count, active
  locationHash,     \* window.location.hash
  searchQuery,      \* TokenExplorerTool: this.searchQuery
  currentCategory   \* PalettesExplorerApp: this.currentCategory

\* The state of the classifier and its input.
tokenVars == <<mergedCSS, rawMap, groupedTokens>>

\* The state of loadTokensFromCSS and of what it shows.
loadVars ==
  <<cssPathOverrides, assetCandidates, baseCandidates, turn, fetchLog, baseCSS,
    cssResolvedPath, variantCSSParts, requested, loadingState, errorBanner>>

\* The state of the palette explorer.
paletteShown ==
  <<copyNotification, notificationTimer, emptyState, paletteGrid, consoleErrors>>

paletteVars == <<responseText, paletteDescriptors, paletteShown>>

\* The argument and the result of a call of parseCSSVarBlock by itself.
blockState == <<blockText, blockVars>>

\* The theme preference of the token explorer and what shows it.
prefVars ==
  <<currentTheme, localStorage, storageThrows, themeSelector, dataTheme>>

\* The state of the copy operations and of what shows their outcome.
copyVars ==
  <<copyPromise, clipboard, tokenNotification, tokenTimers, shown, buttonText,
    buttonTimers, copies>>

\* The argument and the result of a call of extractBlockAt by itself.
extractVars == <<blockStart, blockContent>>

\* The arguments and the result of selectColorsWithMaxContrast.
selectVars == <<fullPalette, tintCount, activePalette>>

\* What renderAllTokens shows: the theme rendered, the token list and the
\* empty state and the sidebar.
renderedVars == <<tokenListTheme, tokenList, tokenEmptyState, sideNav>>

\* What the events of the pages select besides the theme.
queryVars == <<searchQuery, locationHash, currentCategory>>

vars ==
  <<pc, tokenVars, loadVars, paletteVars, blockState, prefVars, copyVars, extractVars,
    selectVars, renderedVars, queryVars>>
\* The literal property keys of the grouped structure and of a token object.
Key ==
  [ root |-> <<"r","o","o","t">>,
    AllTokens |-> <<"A","l","l"," ","t","o","k","e","n","s">>,
    Colors |-> <<"C","o","l","o","r","s">>,
    Gradients |-> <<"G","r","a","d","i","e","n","t","s">>,
    Typography |-> <<"T","y","p","o","g","r","a","p","h","y">>,
    Spacing |-> <<"S","p","a","c","i","n","g">>,
    Shadows |-> <<"S","h","a","d","o","w","s">>,
    BorderRadius |-> <<"B","o","r","d","e","r"," ","R","a","d","i","u","s">>,
    Other |-> <<"O","t","h","e","r">>,
    Interactive |-> <<"I","n","t","e","r","a","c","t","i","v","e">>,
    Background |-> <<"B","a","c","k","g","r","o","u","n","d">>,
    Text |-> <<"T","e","x","t">>,
    Icon |-> <<"I","c","o","n">>,
    Border |-> <<"B","o","r","d","e","r">>,
    Elevation |-> <<"E","l","e","v","a","t","i","o","n">>,
    Chart |-> <<"C","h","a","r","t">>,
    Legacy |-> <<"L","e","g","a","c","y">>,
    General |-> <<"G","e","n","e","r","a","l">>,
    name |-> <<"n","a","m","e">>,
    value |-> <<"v","a","l","u","e">>,
    raw |-> <<"r","a","w">>,
    type |-> <<"t","y","p","e">> ]

\* The token type tags.
TypeTag ==
  [ variable |-> <<"v","a","r","i","a","b","l","e">>,
    color |-> <<"c","o","l","o","r">>,
    gradient |-> <<"g","r","a","d","i","e","n","t">>,
    typography |-> <<"t","y","p","o","g","r","a","p","h","y">>,
    spacing |-> <<"s","p","a","c","i","n","g">>,
    shadow |-> <<"s","h","a","d","o","w">>,
    borderRadius |-> <<"b","o","r","d","e","r","-","r","a","d","i","u","s">> ]

\* The name prefixes (and the one substring) that classification tests.
Prefix ==
  [ dashDash |-> <<"-","-">>,
    prismColor |-> <<"-","-","p","r","i","s","m","-","c","o","l","o","r","-">>,
    color |-> <<"-","-","c","o","l","o","r","-">>,
    prismGradient |-> <<"-","-","p","r","i","s","m","-","g","r","a","d","i","e","n","t","-">>,
    prismTypography |-> <<"-","-","p","r","i","s","m","-","t","y","p","o","g","r","a","p","h","y","-">>,
    prismSpacing |-> <<"-","-","p","r","i","s","m","-","s","p","a","c","i","n","g","-">>,
    prismShadow |-> <<"-","-","p","r","i","s","m","-","s","h","a","d","o","w","-">>,
    prismRadius |-> <<"-","-","p","r","i","s","m","-","r","a","d","i","u","s","-">>,
    prismBorderRadius |-> <<"-","-","p","r","i","s","m","-","b","o","r","d","e","r","-","r","a","d","i","u","s","-">>,
    borderRadius |-> <<"-","-","b","o","r","d","e","r","-","r","a","d","i","u","s","-">>,
    chart |-> <<"-","-","p","r","i","s","m","-","c","o","l","o","r","-","c","h","a","r","t","-">>,
    chartCategorical |-> <<"-","-","p","r","i","s","m","-","c","o","l","o","r","-","c","h","a","r","t","-","c","a","t","e","g","o","r","i","c","a","l","-">>,
    chartSequential |-> <<"-","-","p","r","i","s","m","-","c","o","l","o","r","-","c","h","a","r","t","-","s","e","q","u","e","n","t","i","a","l","-">>,
    interactive |-> <<"-","-","p","r","i","s","m","-","c","o","l","o","r","-","i","n","t","e","r","a","c","t","i","v","e","-">>,
    background |-> <<"-","-","p","r","i","s","m","-","c","o","l","o","r","-","b","a","c","k","g","r","o","u","n","d","-">>,
    text |-> <<"-","-","p","r","i","s","m","-","c","o","l","o","r","-","t","e","x","t","-">>,
    icon |-> <<"-","-","p","r","i","s","m","-","c","o","l","o","r","-","i","c","o","n","-">>,
    border |-> <<"-","-","p","r","i","s","m","-","c","o","l","o","r","-","b","o","r","d","e","r","-">>,
    outline |-> <<"-","-","p","r","i","s","m","-","c","o","l","o","r","-","o","u","t","l","i","n","e","-">>,
    elevation |-> <<"-","-","p","r","i","s","m","-","c","o","l","o","r","-","e","l","e","v","a","t","i","o","n","-">>,
    includesInteractive |-> <<"i","n","t","e","r","a","c","t","i","v","e">> ]

\* The theme names.
Theme ==
  [ light |-> <<"l","i","g","h","t">>,
    dark |-> <<"d","a","r","k">>,
    highcontrastLight |-> <<"h","i","g","h","c","o","n","t","r","a","s","t","-","l","i","g","h","t">>,
    highcontrastDark |-> <<"h","i","g","h","c","o","n","t","r","a","s","t","-","d","a","r","k">> ]

\* String literals of parseTokensCSS, parseCSSVarBlock and loadTokensFromCSS.
Lit ==
  [ rootSelector |-> <<":","r","o","o","t">>,
    themeSelector |-> <<"[","d","a","t","a","-","t","h","e","m","e","=">>,
    commentOpen |-> <<"/","*">>,
    commentClose |-> <<"*","/">>,
    arrow |-> <<" ","=",">"," ">>,
    failedPrefix |-> <<"F","a","i","l","e","d"," ","t","o"," ","l","o","a","d"," ","b","a","s","e"," ","t","o","k","e","n","s",".","c","s","s","."," ","A","t","t","e","m","p","t","s",":"," ">>,
    commaSpace |-> <<","," ">>,
    partOpen |-> <<"\n","/","*"," ","-","-","-","-"," ">>,
    partClose |-> <<" ","-","-","-","-"," ","*","/","\n">>,
    newline |-> <<"\n">>,
    slash |-> <<"/">>,
    networkErrorSuffix |-> <<" ","=",">"," ","n","e","t","w","o","r","k"," ","e","r","r","o","r">> ]

\* Property names the inputs are drawn from.
N ==
  [ text_a |-> <<"-","-","p","r","i","s","m","-","c","o","l","o","r","-","t","e","x","t","-","a">>,
    text_b |-> <<"-","-","p","r","i","s","m","-","c","o","l","o","r","-","t","e","x","t","-","b">>,
    icon_a |-> <<"-","-","p","r","i","s","m","-","c","o","l","o","r","-","i","c","o","n","-","a">>,
    chartAlias |-> <<"-","-","p","r","i","s","m","-","c","o","l","o","r","-","c","h","a","r","t","-","a","c","c","e","n","t","-","p","r","i","m","a","r","y","-","f","i","g","u","r","e","-","d","e","f","a","u","l","t">>,
    chartCategorical |-> <<"-","-","p","r","i","s","m","-","c","o","l","o","r","-","c","h","a","r","t","-","c","a","t","e","g","o","r","i","c","a","l","-","0","1">>,
    chartSequential |-> <<"-","-","p","r","i","s","m","-","c","o","l","o","r","-","c","h","a","r","t","-","s","e","q","u","e","n","t","i","a","l","-","i","n","f","o","-","0","1">>,
    generalInfo |-> <<"-","-","p","r","i","s","m","-","c","o","l","o","r","-","g","e","n","e","r","a","l","-","i","n","f","o","-","5","0","0">>,
    gradInteractive |-> <<"-","-","p","r","i","s","m","-","g","r","a","d","i","e","n","t","-","i","n","t","e","r","a","c","t","i","v","e","-","a">>,
    gradGeneral |-> <<"-","-","p","r","i","s","m","-","g","r","a","d","i","e","n","t","-","a">>,
    typo_a |-> <<"-","-","p","r","i","s","m","-","t","y","p","o","g","r","a","p","h","y","-","a">>,
    spacing_sm |-> <<"-","-","p","r","i","s","m","-","s","p","a","c","i","n","g","-","s","m">>,
    spacing_md |-> <<"-","-","p","r","i","s","m","-","s","p","a","c","i","n","g","-","m","d">>,
    shadow_a |-> <<"-","-","p","r","i","s","m","-","s","h","a","d","o","w","-","a">>,
    radius_a |-> <<"-","-","p","r","i","s","m","-","r","a","d","i","u","s","-","a">>,
    borderRadius_a |-> <<"-","-","b","o","r","d","e","r","-","r","a","d","i","u","s","-","a">>,
    legacy |-> <<"-","-","c","o","l","o","r","-","a">>,
    other |-> <<"-","-","z","-","i","n","d","e","x","-","a">>,
    outline_a |-> <<"-","-","p","r","i","s","m","-","c","o","l","o","r","-","o","u","t","l","i","n","e","-","a">>,
    border_a |-> <<"-","-","p","r","i","s","m","-","c","o","l","o","r","-","b","o","r","d","e","r","-","a">>,
    interactive_a |-> <<"-","-","p","r","i","s","m","-","c","o","l","o","r","-","i","n","t","e","r","a","c","t","i","v","e","-","a">>,
    background_a |-> <<"-","-","p","r","i","s","m","-","c","o","l","o","r","-","b","a","c","k","g","r","o","u","n","d","-","a">>,
    elevation_a |-> <<"-","-","p","r","i","s","m","-","c","o","l","o","r","-","e","l","e","v","a","t","i","o","n","-","a">>,
    prismBorderRadius_a |-> <<"-","-","p","r","i","s","m","-","b","o","r","d","e","r","-","r","a","d","i","u","s","-","a">> ]

\* Raw values the inputs are drawn from.
V ==
  [ px4 |-> <<"4","p","x">>,
    px6 |-> <<"6","p","x">>,
    varRef |-> <<"v","a","r","(","-","-","x",")">>,
    hex |-> <<"#","e","0","f","2","f","e">>,
    red |-> <<"r","e","d">> ]

\* Selectors the drawn stylesheet texts are made of.
Sel ==
  [ root |-> <<":","r","o","o","t">>,
    dark |-> <<":","r","o","o","t","[","d","a","t","a","-","t","h","e","m","e","=","'","d","a","r","k","'","]">>,
    darkBare |-> <<"[","d","a","t","a","-","t","h","e","m","e","=","d","a","r","k","]">>,
    card |-> <<".","c","a","r","d">> ]

\* Declarations the drawn stylesheet texts are made of.
Decl ==
  [ sm4 |-> <<"-","-","p","r","i","s","m","-","s","p","a","c","i","n","g","-","s","m",":","4","p","x",";">>,
    sm6 |-> <<"-","-","p","r","i","s","m","-","s","p","a","c","i","n","g","-","s","m",":","6","p","x",";">>,
    probe |-> <<"-","-","p","r","i","s","m","-","c","o","l","o","r","-","c","h","a","r","t","-","a","c","c","e","n","t","-","p","r","i","m","a","r","y","-","f","i","g","u","r","e","-","d","e","f","a","u","l","t",":","r","e","d",";">> ]

\* The variant theme files.
File ==
  [ dark |-> <<"t","o","k","e","n","s",".","d","a","r","k",".","c","s","s">>,
    highcontrastLight |-> <<"t","o","k","e","n","s",".","h","i","g","h","c","o","n","t","r","a","s","t","-","l","i","g","h","t",".","c","s","s">>,
    highcontrastDark |-> <<"t","o","k","e","n","s",".","h","i","g","h","c","o","n","t","r","a","s","t","-","d","a","r","k",".","c","s","s">> ]

\* Candidate locations of the stylesheet.
Path ==
  [ vendor |-> <<"v","e","n","d","o","r","/","p","r","i","s","m","-","f","o","u","n","d","a","t","i","o","n","/","s","t","y","l","e","s","/","l","i","b","/","t","o","k","e","n","s",".","c","s","s">>,
    dotVendor |-> <<".","/","v","e","n","d","o","r","/","p","r","i","s","m","-","f","o","u","n","d","a","t","i","o","n","/","s","t","y","l","e","s","/","l","i","b","/","t","o","k","e","n","s",".","c","s","s">>,
    bare |-> <<"t","o","k","e","n","s",".","c","s","s">>,
    stylesDir |-> <<"v","e","n","d","o","r","/","p","r","i","s","m","-","f","o","u","n","d","a","t","i","o","n","/","s","t","y","l","e","s","/","l","i","b","/">> ]

\* String literals of PalettesExplorerApp.
Pal ==
  [ generalPrefix |-> <<"-","-","p","r","i","s","m","-","c","o","l","o","r","-","g","e","n","e","r","a","l","-">>,
    alphaInfix |-> <<"-","a","l","p","h","a","-">>,
    alphaPrefix |-> <<"-","-","p","r","i","s","m","-","c","o","l","o","r","-","g","e","n","e","r","a","l","-","a","l","p","h","a","-">>,
    sequentialPrefix |-> <<"-","-","p","r","i","s","m","-","c","o","l","o","r","-","c","h","a","r","t","-","s","e","q","u","e","n","t","i","a","l","-">>,
    categoricalPrefix |-> <<"-","-","p","r","i","s","m","-","c","o","l","o","r","-","c","h","a","r","t","-","c","a","t","e","g","o","r","i","c","a","l","-">>,
    categorical |-> <<"c","a","t","e","g","o","r","i","c","a","l">>,
    brand |-> <<"b","r","a","n","d">>,
    info |-> <<"i","n","f","o">>,
    success |-> <<"s","u","c","c","e","s","s">>,
    warning |-> <<"w","a","r","n","i","n","g">>,
    critical |-> <<"c","r","i","t","i","c","a","l">>,
    intelligence |-> <<"i","n","t","e","l","l","i","g","e","n","c","e">>,
    neutral |-> <<"n","e","u","t","r","a","l">>,
    brandSunset |-> <<"b","r","a","n","d","-","s","u","n","s","e","t">>,
    hyphen |-> <<"-">>,
    space |-> <<" ">>,
    general |-> <<"g","e","n","e","r","a","l">>,
    alpha |-> <<"a","l","p","h","a">>,
    chart |-> <<"c","h","a","r","t">>,
    openBrace |-> <<"{">>,
    closeBrace |-> <<"}">>,
    rootOpen |-> <<":","r","o","o","t">>,
    failedPrefix |-> <<"F","a","i","l","e","d"," ","t","o"," ","l","o","a","d"," ","t","o","k","e","n","s",".","c","s","s","."," ","A","t","t","e","m","p","t","s",":"," ">>,
    unableToLoad |-> <<"U","n","a","b","l","e"," ","t","o"," ","l","o","a","d"," ","p","a","l","e","t","t","e","s">>,
    failedToFetch |-> <<"F","a","i","l","e","d"," ","t","o"," ","f","e","t","c","h">>,
    loadFailed |-> <<"L","o","a","d"," ","f","a","i","l","e","d">> ]

\* Property names the palette inputs are drawn from.
PN ==
  [ info50 |-> <<"-","-","p","r","i","s","m","-","c","o","l","o","r","-","g","e","n","e","r","a","l","-","i","n","f","o","-","5","0">>,
    info050 |-> <<"-","-","p","r","i","s","m","-","c","o","l","o","r","-","g","e","n","e","r","a","l","-","i","n","f","o","-","0","5","0">>,
    info100 |-> <<"-","-","p","r","i","s","m","-","c","o","l","o","r","-","g","e","n","e","r","a","l","-","i","n","f","o","-","1","0","0">>,
    info05 |-> <<"-","-","p","r","i","s","m","-","c","o","l","o","r","-","g","e","n","e","r","a","l","-","i","n","f","o","-","0","5">>,
    info1000 |-> <<"-","-","p","r","i","s","m","-","c","o","l","o","r","-","g","e","n","e","r","a","l","-","i","n","f","o","-","1","0","0","0">>,
    info5 |-> <<"-","-","p","r","i","s","m","-","c","o","l","o","r","-","g","e","n","e","r","a","l","-","i","n","f","o","-","5">>,
    brand10 |-> <<"-","-","p","r","i","s","m","-","c","o","l","o","r","-","g","e","n","e","r","a","l","-","b","r","a","n","d","-","1","0">>,
    neutral10 |-> <<"-","-","p","r","i","s","m","-","c","o","l","o","r","-","g","e","n","e","r","a","l","-","n","e","u","t","r","a","l","-","1","0">>,
    zeta10 |-> <<"-","-","p","r","i","s","m","-","c","o","l","o","r","-","g","e","n","e","r","a","l","-","z","e","t","a","-","1","0">>,
    Acme10 |-> <<"-","-","p","r","i","s","m","-","c","o","l","o","r","-","g","e","n","e","r","a","l","-","A","c","m","e","-","1","0">>,
    acme20 |-> <<"-","-","p","r","i","s","m","-","c","o","l","o","r","-","g","e","n","e","r","a","l","-","a","c","m","e","-","2","0">>,
    acB10 |-> <<"-","-","p","r","i","s","m","-","c","o","l","o","r","-","g","e","n","e","r","a","l","-","a","c","-","b","-","1","0">>,
    alphaInfo20 |-> <<"-","-","p","r","i","s","m","-","c","o","l","o","r","-","g","e","n","e","r","a","l","-","a","l","p","h","a","-","i","n","f","o","-","2","0">>,
    alphaInfo10 |-> <<"-","-","p","r","i","s","m","-","c","o","l","o","r","-","g","e","n","e","r","a","l","-","a","l","p","h","a","-","i","n","f","o","-","1","0">>,
    alphaInfo010 |-> <<"-","-","p","r","i","s","m","-","c","o","l","o","r","-","g","e","n","e","r","a","l","-","a","l","p","h","a","-","i","n","f","o","-","0","1","0">>,
    alphaBrand10 |-> <<"-","-","p","r","i","s","m","-","c","o","l","o","r","-","g","e","n","e","r","a","l","-","a","l","p","h","a","-","b","r","a","n","d","-","1","0">>,
    alphaZeta10 |-> <<"-","-","p","r","i","s","m","-","c","o","l","o","r","-","g","e","n","e","r","a","l","-","a","l","p","h","a","-","z","e","t","a","-","1","0">>,
    alpha10 |-> <<"-","-","p","r","i","s","m","-","c","o","l","o","r","-","g","e","n","e","r","a","l","-","a","l","p","h","a","-","1","0">>,
    midAlpha10 |-> <<"-","-","p","r","i","s","m","-","c","o","l","o","r","-","g","e","n","e","r","a","l","-","m","i","d","-","a","l","p","h","a","-","i","n","f","o","-","1","0">>,
    ALPHAInfo10 |-> <<"-","-","p","r","i","s","m","-","c","o","l","o","r","-","g","e","n","e","r","a","l","-","A","L","P","H","A","-","i","n","f","o","-","1","0">>,
    seqInfo01 |-> <<"-","-","p","r","i","s","m","-","c","o","l","o","r","-","c","h","a","r","t","-","s","e","q","u","e","n","t","i","a","l","-","i","n","f","o","-","0","1">>,
    seqInfo02 |-> <<"-","-","p","r","i","s","m","-","c","o","l","o","r","-","c","h","a","r","t","-","s","e","q","u","e","n","t","i","a","l","-","i","n","f","o","-","0","2">>,
    seqInfo00 |-> <<"-","-","p","r","i","s","m","-","c","o","l","o","r","-","c","h","a","r","t","-","s","e","q","u","e","n","t","i","a","l","-","i","n","f","o","-","0","0">>,
    seqInfo010 |-> <<"-","-","p","r","i","s","m","-","c","o","l","o","r","-","c","h","a","r","t","-","s","e","q","u","e","n","t","i","a","l","-","i","n","f","o","-","0","1","0">>,
    seqSunset01 |-> <<"-","-","p","r","i","s","m","-","c","o","l","o","r","-","c","h","a","r","t","-","s","e","q","u","e","n","t","i","a","l","-","b","r","a","n","d","-","s","u","n","s","e","t","-","0","1">>,
    seqZulu01 |-> <<"-","-","p","r","i","s","m","-","c","o","l","o","r","-","c","h","a","r","t","-","s","e","q","u","e","n","t","i","a","l","-","z","u","l","u","-","0","1">>,
    seqMike01 |-> <<"-","-","p","r","i","s","m","-","c","o","l","o","r","-","c","h","a","r","t","-","s","e","q","u","e","n","t","i","a","l","-","m","i","k","e","-","0","1">>,
    seqCategorical03 |-> <<"-","-","p","r","i","s","m","-","c","o","l","o","r","-","c","h","a","r","t","-","s","e","q","u","e","n","t","i","a","l","-","c","a","t","e","g","o","r","i","c","a","l","-","0","3">>,
    cat01 |-> <<"-","-","p","r","i","s","m","-","c","o","l","o","r","-","c","h","a","r","t","-","c","a","t","e","g","o","r","i","c","a","l","-","0","1">>,
    cat02 |-> <<"-","-","p","r","i","s","m","-","c","o","l","o","r","-","c","h","a","r","t","-","c","a","t","e","g","o","r","i","c","a","l","-","0","2">>,
    cat1 |-> <<"-","-","p","r","i","s","m","-","c","o","l","o","r","-","c","h","a","r","t","-","c","a","t","e","g","o","r","i","c","a","l","-","1">>,
    CAT04 |-> <<"-","-","P","R","I","S","M","-","c","o","l","o","r","-","c","h","a","r","t","-","c","a","t","e","g","o","r","i","c","a","l","-","0","4">>,
    chartAlias |-> <<"-","-","p","r","i","s","m","-","c","o","l","o","r","-","c","h","a","r","t","-","a","c","c","e","n","t","-","p","r","i","m","a","r","y">> ]

\* Raw values of the palette inputs, by place in the declaration order.
PV ==
  [ first |-> <<"#","e","0","f","2","f","e">>,
    second |-> <<"#","b","3","e","5","f","c">>,
    third |-> <<"r","g","b","a","(","0",","," ","0",","," ","0",","," ","0",".","5",")">>,
    fourth |-> <<"v","a","r","(","-","-","x",")">> ]

\* Segments the drawn block bodies are made of.
Seg ==
  [ a1 |-> <<"-","-","a",":","1",";">>,
    a3 |-> <<"-","-","a",":","3",";">>,
    b2 |-> <<"-","-","b",":"," ","2"," ",";">>,
    color |-> <<"c","o","l","o","r",":","r","e","d",";">>,
    noColon |-> <<"-","-","c",";">>,
    inner |-> <<"x","-","-","d",":","4",";">>,
    emptyValue |-> <<"-","-","e",":"," ",";">>,
    newline |-> <<"\n">> ]

\* String literals of persistPreferences and restorePreferences and of the drawn stored items.
Pref ==
  [ key |-> <<"p","r","i","s","m","T","o","k","e","n","s","P","r","e","f","s">>,
    themeOpen |-> <<"{","\"","t","h","e","m","e","\"",":","\"">>,
    themeClose |-> <<"\"","}">>,
    null |-> <<"n","u","l","l">>,
    emptyObject |-> <<"{","}">>,
    unquoted |-> <<"{","t","h","e","m","e",":","d","a","r","k","}">>,
    sepia |-> <<"s","e","p","i","a">> ]

\* String literals of the copy operations and the data of the copy buttons.
Copy ==
  [ copied |-> <<" ","c","o","p","i","e","d"," ","t","o"," ","c","l","i","p","b","o","a","r","d","!">>,
    failedToken |-> <<"F","a","i","l","e","d"," ","t","o"," ","c","o","p","y"," ","t","o","k","e","n">>,
    failedValue |-> <<"F","a","i","l","e","d"," ","t","o"," ","c","o","p","y"," ","v","a","l","u","e">>,
    copiedLabel |-> <<"C","o","p","i","e","d","!">>,
    hexLabel |-> <<"C","o","p","y"," ","h","e","x"," ","v","a","l","u","e","s">>,
    lookerLabel |-> <<"C","o","p","y"," ","p","a","l","e","t","t","e">>,
    colors |-> <<"#","e","0","f","2","f","e",",","#","b","3","e","5","f","c">>,
    snippet |-> <<"p","a","l","e","t","t","e",":"," ","c","u","s","t","o","m"," ","{","\n"," "," ","c","o","l","o","r","0","1",":"," ","'","#","e","0","f","2","f","e","'","\n","}">>,
    consoleToken |-> <<"F","a","i","l","e","d"," ","t","o"," ","c","o","p","y"," ","t","o","k","e","n",":">>,
    consoleValue |-> <<"F","a","i","l","e","d"," ","t","o"," ","c","o","p","y"," ","p","a","l","e","t","t","e"," ","v","a","l","u","e">>,
    consoleHex |-> <<"F","a","i","l","e","d"," ","t","o"," ","c","o","p","y"," ","h","e","x"," ","v","a","l","u","e","s",":">>,
    consoleLooker |-> <<"F","a","i","l","e","d"," ","t","o"," ","c","o","p","y"," ","L","o","o","k","e","r"," ","s","n","i","p","p","e","t",":">> ]

\* String literals of the sidebar and of renderAllTokens, the drawn hashes and the drawn search inputs.
Nav ==
  [ anchorPrefix |-> <<"t","o","k","e","n","s","-","s","e","c","t","i","o","n","-">>,
    section |-> <<"s","e","c","t","i","o","n">>,
    hash |-> <<"#">>,
    hyphen |-> <<"-">>,
    spacingHash |-> <<"#","t","o","k","e","n","s","-","s","e","c","t","i","o","n","-","s","p","a","c","i","n","g">>,
    allTokensHash |-> <<"#","t","o","k","e","n","s","-","s","e","c","t","i","o","n","-","a","l","l","-","t","o","k","e","n","s">>,
    typedName |-> <<"S","M">>,
    typedValue |-> <<"6","p","x">>,
    typedOther |-> <<"z","z">> ]

----------------------------------------------------------------------------
(* Strings *)

\* The UTF-16 code unit of each character that occurs in the model.
CharCode ==
  ("\n" :> 10) @@ (" " :> 32) @@ ("!" :> 33) @@ ("\"" :> 34) @@ ("#" :> 35) @@
  ("$" :> 36) @@ ("%" :> 37) @@ ("&" :> 38) @@ ("'" :> 39) @@ ("(" :> 40) @@
  (")" :> 41) @@ ("*" :> 42) @@ ("+" :> 43) @@ ("," :> 44) @@ ("-" :> 45) @@
  ("." :> 46) @@ ("/" :> 47) @@ ("0" :> 48) @@ ("1" :> 49) @@ ("2" :> 50) @@
  ("3" :> 51) @@ ("4" :> 52) @@ ("5" :> 53) @@ ("6" :> 54) @@ ("7" :> 55) @@
  ("8" :> 56) @@ ("9" :> 57) @@ (":" :> 58) @@ (";" :> 59) @@ ("<" :> 60) @@
  ("=" :> 61) @@ (">" :> 62) @@ ("?" :> 63) @@ ("@" :> 64) @@ ("A" :> 65) @@
  ("B" :> 66) @@ ("C" :> 67) @@ ("D" :> 68) @@ ("E" :> 69) @@ ("F" :> 70) @@
  ("G" :> 71) @@ ("H" :> 72) @@ ("I" :> 73) @@ ("J" :> 74) @@ ("K" :> 75) @@
  ("L" :> 76) @@ ("M" :> 77) @@ ("N" :> 78) @@ ("O" :> 79) @@ ("P" :> 80) @@
  ("Q" :> 81) @@ ("R" :> 82) @@ ("S" :> 83) @@ ("T" :> 84) @@ ("U" :> 85) @@
  ("V" :> 86) @@ ("W" :> 87) @@ ("X" :> 88) @@ ("Y" :> 89) @@ ("Z" :> 90) @@
  ("[" :> 91) @@ ("]" :> 93) @@ ("^" :> 94) @@ ("_" :> 95) @@ ("a" :> 97) @@
  ("b" :> 98) @@ ("c" :> 99) @@ ("d" :> 100) @@ ("e" :> 101) @@ ("f" :> 102) @@
  ("g" :> 103) @@ ("h" :> 104) @@ ("i" :> 105) @@ ("j" :> 106) @@ ("k" :> 107) @@
  ("l" :> 108) @@ ("m" :> 109) @@ ("n" :> 110) @@ ("o" :> 111) @@ ("p" :> 112) @@
  ("q" :> 113) @@ ("r" :> 114) @@ ("s" :> 115) @@ ("t" :> 116) @@ ("u" :> 117) @@
  ("v" :> 118) @@ ("w" :> 119) @@ ("x" :> 120) @@ ("y" :> 121) @@ ("z" :> 122) @@
  ("{" :> 123) @@ ("|" :> 124) @@ ("}" :> 125) @@ ("~" :> 126)

\* String.prototype.startsWith
startsWith(s, p) == Len(s) >= Len(p) /\ SubSeq(s, 1, Len(p)) = p

\* String.prototype.includes
includes(s, p) ==
  \E i \in 1..(Len(s) - Len(p) + 1) : SubSeq(s, i, i + Len(p) - 1) = p

\* The default comparison of Array.prototype.sort: a < b by code units.
StrLess(a, b) ==
  \E i \in 1..(Len(b)) :
    /\ \A j \in 1..(i - 1) : j <= Len(a) /\ a[j] = b[j]
    /\ \/ i = Len(a) + 1
       \/ i <= Len(a) /\ CharCode[a[i]] < CharCode[b[i]]

\* The element of a one-element set.  The({e(x) : x \in {v}}) is e(v) with v
\* computed once, however often e uses x.
The(S) == CHOOSE x \in S : TRUE

\* Array.prototype.sort() without comparator, on an array of distinct strings.
RECURSIVE sort(_)
sort(arr) ==
  IF arr = <<>> THEN <<>>
  ELSE LET m == CHOOSE i \in 1..Len(arr) :
                  \A j \in 1..Len(arr) : ~StrLess(arr[j], arr[i])
       IN <<arr[m]>> \o sort(SubSeq(arr, 1, m - 1) \o SubSeq(arr, m + 1, Len(arr)))

----------------------------------------------------------------------------
(* Objects and values *)

\* A value held in an object: a string, an object, or undefined.
StrV(s) == [t |-> "str", s |-> s, o |-> <<>>]
ObjV(o) == [t |-> "obj", s |-> <<>>, o |-> o]
Undefined == [t |-> "undef", s |-> <<>>, o |-> <<>>]

\* JavaScript truthiness of such a value.
Truthy(v) == v.t = "obj" \/ (v.t = "str" /\ v.s # <<>>)

\* k in obj (an own property).
Has(obj, k) == \E i \in 1..Len(obj) : obj[i].k = k

\* obj[k] for the values above: undefined when absent.
Prop(obj, k) ==
  IF Has(obj, k) THEN obj[CHOOSE i \in 1..Len(obj) : obj[i].k = k].v ELSE Undefined

\* obj[k] of a map of strings, for a key that is present.
Get(obj, k) == obj[CHOOSE i \in 1..Len(obj) : obj[i].k = k].v

\* obj[k] = v: an existing key keeps its place, a new key goes last.
Set(obj, k, v) ==
  IF Has(obj, k)
    THEN [i \in 1..Len(obj) |-> IF obj[i].k = k THEN [k |-> k, v |-> v] ELSE obj[i]]
    ELSE Append(obj, [k |-> k, v |-> v])

\* Object.keys(obj)
Keys(obj) == [i \in 1..Len(obj) |-> obj[i].k]

\* Object.assign(target, source), and { ...target, ...source }.
RECURSIVE Assign(_, _)
Assign(target, source) ==
  IF source = <<>> THEN target
  ELSE The({Assign(t, Tail(source)) :
              t \in {Set(target, Head(source).k, Head(source).v)}})

\* An object literal from a sequence of <<key, value>> pairs.
Obj(pairs) == [i \in 1..Len(pairs) |-> [k |-> pairs[i][1], v |-> pairs[i][2]]]

----------------------------------------------------------------------------
(* buildGroupedTokens *)

\* this.availableThemes
availableThemes ==
  <<Theme.light, Theme.dark, Theme.highcontrastLight, Theme.highcontrastDark>>

\* The type tag computed from the name (the if/else chain on tokenType).
tokenType(name) ==
  IF startsWith(name, Prefix.prismColor) \/ startsWith(name, Prefix.color)
    THEN TypeTag.color
  ELSE IF startsWith(name, Prefix.prismGradient) THEN TypeTag.gradient
  ELSE IF startsWith(name, Prefix.prismTypography) THEN TypeTag.typography
  ELSE IF startsWith(name, Prefix.prismSpacing) THEN TypeTag.spacing
  ELSE IF startsWith(name, Prefix.prismShadow) THEN TypeTag.shadow
  ELSE IF \/ startsWith(name, Prefix.prismRadius)
          \/ startsWith(name, Prefix.prismBorderRadius)
          \/ startsWith(name, Prefix.borderRadius)
    THEN TypeTag.borderRadius
  ELSE TypeTag.variable

\* The token object { name, value, raw: value, type }.
Token(name, value, type) ==
  ObjV(Obj(<< <<Key.name, StrV(name)>>, <<Key.value, StrV(value)>>,
              <<Key.raw, StrV(value)>>, <<Key.type, StrV(type)>> >>))

\* The initial literal of grouped.
EmptyGrouped ==
  Obj(<< <<Key.AllTokens, ObjV(<<>>)>>,
         <<Key.Colors, ObjV(Obj(<< <<Key.Interactive, ObjV(<<>>)>>,
                                   <<Key.Background, ObjV(<<>>)>>,
                                   <<Key.Text, ObjV(<<>>)>>,
                                   <<Key.Icon, ObjV(<<>>)>>,
                                   <<Key.Border, ObjV(<<>>)>>,
                                   <<Key.Elevation, ObjV(<<>>)>>,
                                   <<Key.Chart, ObjV(<<>>)>>,
                                   <<Key.Legacy, ObjV(<<>>)>> >>))>>,
         <<Key.Gradients, ObjV(Obj(<< <<Key.Interactive, ObjV(<<>>)>>,
                                      <<Key.General, ObjV(<<>>)>> >>))>>,
         <<Key.Typography, ObjV(<<>>)>>,
         <<Key.Spacing, ObjV(<<>>)>>,
         <<Key.Shadows, ObjV(<<>>)>>,
         <<Key.BorderRadius, ObjV(<<>>)>>,
         <<Key.Other, ObjV(<<>>)>> >>)

\* grouped[cat][name] = token
PutCat(grouped, cat, name, token) ==
  The({Set(grouped, cat, c) : c \in {ObjV(Set(Prop(grouped, cat).o, name, token))}})

\* grouped[cat][sub][name] = token
PutSub(grouped, cat, sub, name, token) ==
  The({ The({Set(grouped, cat, c2) :
               c2 \in {ObjV(Set(c, sub, ObjV(Set(Prop(c, sub).o, name, token))))}})
        : c \in {Prop(grouped, cat).o} })

\* token.type = tag
withType(token, tag) == ObjV(Set(token.o, Key.type, StrV(tag)))

\* A '--prism-color-chart-' branch without the exclusion: every chart color
\* is stored in Colors/Chart.
categorizeChartUnfiltered(grouped, name, token) ==
  PutSub(grouped, Key.Colors, Key.Chart, name, token)

\* A '--prism-color-chart-' branch that tells an alias by its value: only a
\* var() reference is stored in Colors/Chart.
categorizeChartByValue(grouped, name, token) ==
  IF startsWith(Prop(token.o, Key.value).s, <<"v", "a", "r", "(">>)
    THEN PutSub(grouped, Key.Colors, Key.Chart, name, token)
    ELSE grouped

\* The chart branch: categorical and sequential chart colors are not stored.
categorizeChart(grouped, name, token) ==
  IF /\ ~startsWith(name, Prefix.chartCategorical)
     /\ ~startsWith(name, Prefix.chartSequential)
    THEN PutSub(grouped, Key.Colors, Key.Chart, name, token)
    ELSE grouped

\* A '--prism-color-' branch whose unmatched names are stored in Other.
categorizeColorElseOther(grouped, name, token) ==
  IF startsWith(name, Prefix.chart) THEN categorizeChart(grouped, name, token)
  ELSE IF startsWith(name, Prefix.interactive)
    THEN PutSub(grouped, Key.Colors, Key.Interactive, name, token)
  ELSE IF startsWith(name, Prefix.background)
    THEN PutSub(grouped, Key.Colors, Key.Background, name, token)
  ELSE IF startsWith(name, Prefix.text)
    THEN PutSub(grouped, Key.Colors, Key.Text, name, token)
  ELSE IF startsWith(name, Prefix.icon)
    THEN PutSub(grouped, Key.Colors, Key.Icon, name, token)
  ELSE IF startsWith(name, Prefix.border) \/ startsWith(name, Prefix.outline)
    THEN PutSub(grouped, Key.Colors, Key.Border, name, token)
  ELSE IF startsWith(name, Prefix.elevation)
    THEN PutSub(grouped, Key.Colors, Key.Elevation, name, token)
  ELSE PutCat(grouped, Key.Other, name, token)

\* The '--prism-color-' branch: the second-level prefix selects the subcategory;
\* a name matching none of them is stored nowhere.
categorizeColor(grouped, name, token) ==
  IF startsWith(name, Prefix.chart) THEN categorizeChart(grouped, name, token)
  ELSE IF startsWith(name, Prefix.interactive)
    THEN PutSub(grouped, Key.Colors, Key.Interactive, name, token)
  ELSE IF startsWith(name, Prefix.background)
    THEN PutSub(grouped, Key.Colors, Key.Background, name, token)
  ELSE IF startsWith(name, Prefix.text)
    THEN PutSub(grouped, Key.Colors, Key.Text, name, token)
  ELSE IF startsWith(name, Prefix.icon)
    THEN PutSub(grouped, Key.Colors, Key.Icon, name, token)
  ELSE IF startsWith(name, Prefix.border) \/ startsWith(name, Prefix.outline)
    THEN PutSub(grouped, Key.Colors, Key.Border, name, token)
  ELSE IF startsWith(name, Prefix.elevation)
    THEN PutSub(grouped, Key.Colors, Key.Elevation, name, token)
  ELSE grouped

\* The if/else chain that stores a token in the category its name selects.
categorizeToken(grouped, name, token) ==
  IF ~startsWith(name, Prefix.dashDash) THEN grouped
  ELSE IF startsWith(name, Prefix.prismColor)
    THEN categorizeColor(grouped, name, withType(token, TypeTag.color))
  ELSE IF startsWith(name, Prefix.prismGradient) THEN
    IF includes(name, Prefix.includesInteractive)
      THEN PutSub(grouped, Key.Gradients, Key.Interactive, name,
                  withType(token, TypeTag.gradient))
      ELSE PutSub(grouped, Key.Gradients, Key.General, name,
                  withType(token, TypeTag.gradient))
  ELSE IF startsWith(name, Prefix.prismTypography)
    THEN PutCat(grouped, Key.Typography, name, withType(token, TypeTag.typography))
  ELSE IF startsWith(name, Prefix.prismSpacing)
    THEN PutCat(grouped, Key.Spacing, name, withType(token, TypeTag.spacing))
  ELSE IF startsWith(name, Prefix.prismShadow)
    THEN PutCat(grouped, Key.Shadows, name, withType(token, TypeTag.shadow))
  ELSE IF \/ startsWith(name, Prefix.prismRadius)
          \/ startsWith(name, Prefix.prismBorderRadius)
          \/ startsWith(name, Prefix.borderRadius)
    THEN PutCat(grouped, Key.BorderRadius, name, withType(token, TypeTag.borderRadius))
  ELSE IF startsWith(name, Prefix.color)
    THEN PutSub(grouped, Key.Colors, Key.Legacy, name, withType(token, TypeTag.color))
  ELSE PutCat(grouped, Key.Other, name, token)

\* One turn of the first Object.entries(effective).forEach: the token
\* { name, value, raw: value, type: tokenType } is built and stored.
categorize(grouped, name, value) ==
  The({categorizeToken(grouped, name, token) :
         token \in {Token(name, value, tokenType(name))}})

\* The first forEach over the entries of the effective map.
RECURSIVE categorizeAll(_, _)
categorizeAll(grouped, entries) ==
  IF entries = <<>> THEN grouped
  ELSE The({categorizeAll(g, Tail(entries)) :
              g \in {categorize(grouped, Head(entries).k, Head(entries).v)}})

\* allProcessedTokens: a token for every name that starts with '--'.
RECURSIVE allProcessedTokens(_)
allProcessedTokens(entries) ==
  IF entries = <<>> THEN <<>>
  ELSE LET e == Head(entries)
           rest == allProcessedTokens(Tail(entries))
       IN IF startsWith(e.k, Prefix.dashDash)
            THEN <<[k |-> e.k, v |-> Token(e.k, e.v, tokenType(e.k))]>> \o rest
            ELSE rest

\* categoryOrder
categoryOrder ==
  <<Key.Colors, Key.Gradients, Key.Typography, Key.Spacing, Key.Shadows,
    Key.BorderRadius, Key.Other>>

\* subCategoryOrder: an array of subcategory names for Colors and Gradients.
subCategoryOrder ==
  Obj(<< <<Key.Colors, <<Key.Interactive, Key.Background, Key.Text, Key.Icon,
                         Key.Border, Key.Elevation, Key.Chart, Key.Legacy>> >>,
         <<Key.Gradients, <<Key.Interactive, Key.General>> >> >>)

\* sortedTokens.forEach(tokenName => { if (container[tokenName])
\*   orderedAllVariables[tokenName] = container[tokenName]; })
RECURSIVE addSorted(_, _, _)
addSorted(ordered, container, sortedTokens) ==
  IF sortedTokens = <<>> THEN ordered
  ELSE The({addSorted(o, container, Tail(sortedTokens)) :
              o \in {LET tokenName == Head(sortedTokens)
                         v == Prop(container, tokenName)
                     IN IF Truthy(v) THEN Set(ordered, tokenName, v) ELSE ordered}})

\* subOrder.forEach(subCategoryName => ...): the keys of each subcategory,
\* sorted, are added with their values.
RECURSIVE addSubCategories(_, _, _)
addSubCategories(ordered, category, subOrder) ==
  IF subOrder = <<>> THEN ordered
  ELSE The({addSubCategories(o, category, Tail(subOrder)) :
              o \in {The({IF Truthy(subCategory)
                            THEN The({addSorted(ordered, subCategory.o, sortedTokens) :
                                        sortedTokens \in {sort(Keys(subCategory.o))}})
                            ELSE ordered
                          : subCategory \in {Prop(category, Head(subOrder))}})}})

\* The test that takes a category for one with subcategories:
\* typeof category === 'object' && !category.name
hasSubcategories(category) ==
  category.t = "obj" /\ ~Truthy(Prop(category.o, Key.name))

\* One turn of categoryOrder.forEach.
addCategory(ordered, grouped, categoryName) ==
  The({IF ~Truthy(category) THEN ordered
       ELSE IF hasSubcategories(category)
         THEN The({addSubCategories(ordered, category.o, subOrder) :
                     subOrder \in {IF Has(subCategoryOrder, categoryName)
                                     THEN Get(subCategoryOrder, categoryName)
                                     ELSE Keys(category.o)}})
         ELSE The({addSorted(ordered, category.o, sortedTokens) :
                     sortedTokens \in {sort(Keys(category.o))}})
       : category \in {Prop(grouped, categoryName)}})

RECURSIVE addCategories(_, _, _)
addCategories(ordered, grouped, order) ==
  IF order = <<>> THEN ordered
  ELSE The({addCategories(o, grouped, Tail(order)) :
              o \in {addCategory(ordered, grouped, Head(order))}})

\* The fallback: every processed token not yet in orderedAllVariables is appended.
RECURSIVE addUncategorized(_, _)
addUncategorized(ordered, processed) ==
  IF processed = <<>> THEN ordered
  ELSE The({addUncategorized(o, Tail(processed)) :
              o \in {IF ~Truthy(Prop(ordered, Head(processed).k))
                       THEN Set(ordered, Head(processed).k, Head(processed).v)
                       ELSE ordered}})

\* orderedAllVariables for a categorized structure and its effective map.
orderedAllVariables(grouped, effective) ==
  The({addUncategorized(ordered, processed) :
         <<ordered, processed>> \in {<<addCategories(<<>>, grouped, categoryOrder),
                                       allProcessedTokens(effective)>>}})

\* An effective map in which the base value wins over the override.
effectiveMapBaseWins(raw, theme) ==
  LET rootVars == IF Has(raw, Key.root) THEN Get(raw, Key.root) ELSE <<>>
      overrides == IF Has(raw, theme) THEN Get(raw, theme) ELSE <<>>
  IN Assign(Assign(<<>>, overrides), rootVars)

\* const effective = { ...rootVars, ...overrides }
effectiveMap(raw, theme) ==
  LET rootVars == IF Has(raw, Key.root) THEN Get(raw, Key.root) ELSE <<>>
      overrides == IF Has(raw, theme) THEN Get(raw, theme) ELSE <<>>
  IN Assign(Assign(<<>>, rootVars), overrides)

\* The body of availableThemes.forEach: the grouped structure of one theme.
groupedOf(raw, theme) ==
  The({ The({ The({Set(grouped, Key.AllTokens, ObjV(ordered)) :
                     ordered \in {orderedAllVariables(grouped, effective)}})
              : grouped \in {categorizeAll(EmptyGrouped, effective)} })
        : effective \in {effectiveMap(raw, theme)} })

\* buildGroupedTokens(rawMap): groupedPerTheme.
buildGroupedTokens(raw) ==
  Obj([i \in 1..Len(availableThemes) |->
        <<availableThemes[i], ObjV(groupedOf(raw, availableThemes[i]))>>])

----------------------------------------------------------------------------
(* Scanning text.  Positions are JavaScript's: the first character is at 0. *)

\* s[i]
at(s, i) == s[i + 1]

\* s.slice(a, b), for 0 <= a <= b <= s.length
slice(s, a, b) == SubSeq(s, a + 1, b)

\* Whether p occurs in s at position i.
startsAt(s, p, i) == i + Len(p) <= Len(s) /\ SubSeq(s, i + 1, i + Len(p)) = p

\* The least element of a non-empty set of positions.
Min(S) == CHOOSE x \in S : \A y \in S : x <= y

\* The greatest element of a non-empty set of positions.
Max(S) == CHOOSE x \in S : \A y \in S : x >= y

\* s.indexOf(p, from): -1 when there is none.
indexOf(s, p, from) ==
  The({IF hits = {} THEN -1 ELSE Min(hits) :
         hits \in {{i \in from..(Len(s) - Len(p)) : startsAt(s, p, i)}}})

\* The regular expression class \s, which is also what trim() strips.
IsSpace(c) == c \in {" ", "\n", "\t", "\r", "\f"}

\* The regular expression class [\w-].
IsNameChar(c) ==
  \/ c = "-"
  \/ c = "_"
  \/ CharCode[c] \in 48..57
  \/ CharCode[c] \in 65..90
  \/ CharCode[c] \in 97..122

\* The end of a greedy run that starts at i and stops at the first of the
\* positions in `stops`, or at the end of the text.
runEnd(s, i, stops) == IF stops # {} THEN Min(stops) ELSE IF i > Len(s) THEN i ELSE Len(s)

\* The position after the longest run of white space from i on (\s*).
skipSpace(s, i) ==
  The({runEnd(s, i, stops) :
         stops \in {{j \in i..(Len(s) - 1) : ~IsSpace(at(s, j))}}})

\* The position after the longest run of name characters from i on ([\w-]*).
skipName(s, i) ==
  The({runEnd(s, i, stops) :
         stops \in {{j \in i..(Len(s) - 1) : ~IsNameChar(at(s, j))}}})

\* String.prototype.trim
trim(s) ==
  The({IF kept = {} THEN <<>> ELSE slice(s, Min(kept), Max(kept) + 1) :
         kept \in {{i \in 0..(Len(s) - 1) : ~IsSpace(at(s, i))}}})

\* A character /['"]/ does not match.
IsNotQuote(c) == c \notin {"'", "\""}

\* s.replace(/['"]/g, '')
stripQuotes(s) == SelectSeq(s, IsNotQuote)

\* The end of a match of /\/\*[\s\S]*?\*\// (dotAll) or /\/\*.*?\*\// at
\* position i, or -1: a comment opens there and closes later; without dotAll
\* '.' matches no line break, so a comment that spans lines is no match.
commentEnd(s, i, dotAll) ==
  IF ~startsAt(s, Lit.commentOpen, i) THEN -1
  ELSE The({IF /\ close # -1
               /\ dotAll \/ \A j \in (i + 2)..(close - 1) : at(s, j) \notin {"\n", "\r"}
              THEN close + 2 ELSE -1
            : close \in {indexOf(s, Lit.commentClose, i + 2)}})

\* The first position at or after `from` where `ends` records a match, or -1.
firstMatch(ends, from) ==
  The({IF hits = {} THEN -1 ELSE Min(hits) :
         hits \in {{i \in DOMAIN ends : i >= from /\ ends[i] # -1}}})

\* s.replace(<pattern>/g, replacement), from position `from` on, where
\* ends[i] is the end of the pattern's match at position i, or -1.
RECURSIVE replaceAll(_, _, _, _)
replaceAll(s, ends, replacement, from) ==
  The({IF start = -1 THEN slice(s, from, Len(s))
       ELSE slice(s, from, start) \o replacement
              \o replaceAll(s, ends, replacement, ends[start])
       : start \in {firstMatch(ends, from)}})

\* s.replace(<the comment pattern>/g, '')
removeComments(s, dotAll) ==
  The({replaceAll(s, ends, <<>>, 0) :
         ends \in {[i \in 0..(Len(s) - 1) |-> commentEnd(s, i, dotAll)]}})

\* The end of a match of /\n\s*\n/ at position i, or -1: a line break, then
\* white space up to the last line break of the white space after it.
emptyLinesEnd(s, i) ==
  IF at(s, i) # "\n" THEN -1
  ELSE The({IF breaks = {} THEN -1 ELSE Max(breaks) + 1 :
              breaks \in {{j \in (i + 1)..(skipSpace(s, i + 1) - 1) : at(s, j) = "\n"}}})

\* s.replace(/\n\s*\n/g, '\n')
removeEmptyLines(s) ==
  The({replaceAll(s, ends, <<"\n">>, 0) :
         ends \in {[i \in 0..(Len(s) - 1) |-> emptyLinesEnd(s, i)]}})

----------------------------------------------------------------------------
(* parseCSSVarBlock *)

\* The sanity threshold below which the fallback splitter runs.
FallbackThreshold == 500

\* normalizedBlock
normalizeBlock(block) ==
  The({ The({ trim(collapsed) : collapsed \in {removeEmptyLines(stripped)} })
        : stripped \in {removeComments(block, TRUE)} })

\* No match of a pattern with captures.
NoMatch == [name |-> <<>>, value |-> <<>>, end |-> -1]

\* /--([\w-]+)\s*:\s*([^;]+);/ from the end of the name on.
varMatchTail(s, i, nameEnd) ==
  The({IF colon < Len(s) /\ at(s, colon) = ":"
         THEN The({IF semi > colon + 1
                     THEN [name |-> slice(s, i + 2, nameEnd),
                           value |-> slice(s, colon + 1, semi), end |-> semi + 1]
                     ELSE NoMatch
                   : semi \in {indexOf(s, <<";">>, colon + 1)}})
         ELSE NoMatch
       : colon \in {skipSpace(s, nameEnd)}})

\* One attempt of /--([\w-]+)\s*:\s*([^;]+);/ at position i: the match's
\* name, value capture and end, or end = -1 when it does not match there.
varMatchAt(s, i) ==
  IF ~startsAt(s, Prefix.dashDash, i) THEN NoMatch
  ELSE The({IF nameEnd > i + 2 THEN varMatchTail(s, i, nameEnd) ELSE NoMatch :
              nameEnd \in {skipName(s, i + 2)}})

\* The body of the while loop: vars[name] = value and regexMatches++ when
\* both are non-empty.
regexStep(acc, match) ==
  The({IF name # <<>> /\ value # <<>>
         THEN [vars |-> Set(acc.vars, name, value), regexMatches |-> acc.regexMatches + 1]
         ELSE acc
       : <<name, value>> \in {<<Prefix.dashDash \o trim(match.name),
                                 trim(removeComments(trim(match.value), FALSE))>>}})

\* The while loop over varRegex.exec(normalizedBlock) from lastIndex = from,
\* where matches[i] is the attempt at position i: the variables found and the
\* number of them counted in regexMatches.
RECURSIVE regexLoop(_, _, _)
regexLoop(matches, from, acc) ==
  The({IF hits = {} THEN acc
       ELSE The({regexLoop(matches, match.end, next) :
                   <<match, next>> \in
                     {<<matches[Min(hits)], regexStep(acc, matches[Min(hits)])>>}})
       : hits \in {{i \in DOMAIN matches : i >= from /\ matches[i].end # -1}}})

\* The regex pass over the whole normalized block.
regexPass(s) ==
  The({regexLoop(matches, 0, [vars |-> <<>>, regexMatches |-> 0]) :
         matches \in {[i \in 0..(Len(s) - 1) |-> varMatchAt(s, i)]}})

\* The end of a match of /;\s*(?=\n|\r|$)|;\s*(?=\s*--)/ at a ';' at
\* position i, or -1: the ';' separates when the white space after it reaches
\* the end of the text, holds a line break, or is followed by '--'.
separatorEnd(s, i) ==
  IF at(s, i) # ";" THEN -1
  ELSE The({IF stop = Len(s) THEN stop
            ELSE IF breaks # {} THEN Max(breaks)
            ELSE IF startsAt(s, Prefix.dashDash, stop) THEN stop
            ELSE -1
            : <<stop, breaks>> \in
                {<<skipSpace(s, i + 1),
                   {j \in (i + 1)..(skipSpace(s, i + 1) - 1) : at(s, j) \in {"\n", "\r"}}>>}})

\* The pieces between the separators from position `from` on, where ends[i]
\* is the end of the separator at position i, or -1.
RECURSIVE splitFrom(_, _, _)
splitFrom(s, ends, from) ==
  The({IF sep = -1 THEN <<slice(s, from, Len(s))>>
       ELSE <<slice(s, from, sep)>> \o splitFrom(s, ends, ends[sep])
       : sep \in {firstMatch(ends, from)}})

\* normalizedBlock.split(/;\s*(?=\n|\r|$)|;\s*(?=\s*--)/)
splitLines(s) ==
  The({splitFrom(s, ends, 0) :
         ends \in {[i \in 0..(Len(s) - 1) |-> separatorEnd(s, i)]}})

\* The body of lines.forEach once the line is trimmed.
fallbackTrimmed(found, line) ==
  IF ~startsWith(line, Prefix.dashDash) THEN found
  ELSE The({IF idx = -1 THEN found
            ELSE The({IF name = <<>> \/ value = <<>> THEN found
                      ELSE Set(found, name, value)
                      : <<name, value>> \in
                          {<<trim(slice(line, 0, idx)),
                             trim(slice(line, idx + 1, Len(line)))>>}})
            : idx \in {indexOf(line, <<":">>, 0)}})

\* One turn of lines.forEach: a piece '--name: value' sets vars[name] = value.
fallbackLine(found, rawLine) ==
  The({fallbackTrimmed(found, line) : line \in {trim(rawLine)}})

RECURSIVE fallbackPass(_, _)
fallbackPass(found, lines) ==
  IF lines = <<>> THEN found
  ELSE The({fallbackPass(next, Tail(lines)) :
              next \in {fallbackLine(found, Head(lines))}})

\* The statements of parseCSSVarBlock after normalizedBlock is computed.
parseNormalized(normalizedBlock) ==
  The({IF primary.regexMatches < FallbackThreshold
         THEN The({fallbackPass(primary.vars, lines) :
                     lines \in {splitLines(normalizedBlock)}})
         ELSE primary.vars
       : primary \in {regexPass(normalizedBlock)}})

\* parseCSSVarBlock(block)
parseCSSVarBlock(block) ==
  The({parseNormalized(normalizedBlock) :
         normalizedBlock \in {normalizeBlock(block)}})

----------------------------------------------------------------------------
(* parseTokensCSS *)

\* The for loop of extractBlockAt: braces[k] is the position of the k-th
\* brace at or after braceIdx; characters other than braces leave the depth
\* as it is, so the loop is followed from one brace to the next.
RECURSIVE scanBlock(_, _, _, _, _)
scanBlock(cssText, braceIdx, braces, k, depth) ==
  IF k > Len(braces) THEN <<>>
  ELSE IF at(cssText, braces[k]) = "{"
    THEN scanBlock(cssText, braceIdx, braces, k + 1, depth + 1)
  ELSE IF depth - 1 = 0 THEN slice(cssText, braceIdx + 1, braces[k])
  ELSE scanBlock(cssText, braceIdx, braces, k + 1, depth - 1)

\* The positions in S in increasing order.
RECURSIVE ascending(_)
ascending(S) == IF S = {} THEN <<>> ELSE <<Min(S)>> \o ascending(S \ {Min(S)})

\* extractBlockAt without its depth count: the text up to the first '}'.
extractToFirstClose(cssText, startIdx) ==
  The({IF braceIdx = -1 THEN <<>>
       ELSE The({IF close = -1 THEN <<>> ELSE slice(cssText, braceIdx + 1, close) :
                   close \in {indexOf(cssText, <<"}">>, braceIdx)}})
       : braceIdx \in {indexOf(cssText, <<"{">>, startIdx)}})

\* extractBlockAt(startIdx)
extractBlockAt(cssText, startIdx) ==
  The({IF braceIdx = -1 THEN <<>>
       ELSE The({scanBlock(cssText, braceIdx, braces, 1, 0) :
                   braces \in {ascending({j \in braceIdx..(Len(cssText) - 1) :
                                            at(cssText, j) \in {"{", "}"}})}})
       : braceIdx \in {indexOf(cssText, <<"{">>, startIdx)}})

\* The end of a match of /:root\s*{/ at position i, or -1.
rootMatchEnd(cssText, i) ==
  IF ~startsAt(cssText, Lit.rootSelector, i) THEN -1
  ELSE The({IF brace < Len(cssText) /\ at(cssText, brace) = "{" THEN brace + 1 ELSE -1 :
              brace \in {skipSpace(cssText, i + Len(Lit.rootSelector))}})

\* The body of the while loop over the :root matches with the merge turned
\* round: what an earlier block declared is kept.
rootStepEarlierWins(cssText, root, index) ==
  The({IF content # <<>>
         THEN The({Assign(parsed, root) : parsed \in {parseCSSVarBlock(content)}})
         ELSE root
       : content \in {extractBlockAt(cssText, index)}})

\* The body of the while loop over the :root matches: a non-empty block body
\* is parsed and merged into map.root.
rootStep(cssText, root, index) ==
  The({IF content # <<>>
         THEN The({Assign(root, parsed) : parsed \in {parseCSSVarBlock(content)}})
         ELSE root
       : content \in {extractBlockAt(cssText, index)}})

\* The while loop over rootRegex.exec(cssText) from lastIndex = from, where
\* ends[i] is the end of the match at position i, or -1.
RECURSIVE rootLoop(_, _, _, _)
rootLoop(cssText, ends, from, root) ==
  The({IF index = -1 THEN root
       ELSE The({rootLoop(cssText, ends, ends[index], next) :
                   next \in {rootStep(cssText, root, index)}})
       : index \in {firstMatch(ends, from)}})

\* map.root after the loop over all :root blocks.
collectRoot(cssText) ==
  The({rootLoop(cssText, ends, 0, <<>>) :
         ends \in {[i \in 0..(Len(cssText) - 1) |-> rootMatchEnd(cssText, i)]}})

\* The end of a match of /\[data-theme=([^\]]+)\]/ at position i, or -1.
themeMatchEnd(cssText, i) ==
  IF ~startsAt(cssText, Lit.themeSelector, i) THEN -1
  ELSE The({IF close > i + Len(Lit.themeSelector) THEN close + 1 ELSE -1 :
              close \in {indexOf(cssText, <<"]">>, i + Len(Lit.themeSelector))}})

\* The body of the while loop over the theme selectors, for the match at
\* `index` with the cleaned capture rawName; acc holds map and seen.
themeStep(cssText, acc, index, rawName) ==
  IF rawName = <<>> \/ rawName \in acc.seen THEN acc
  ELSE The({IF content # <<>>
              THEN The({[map |-> Set(acc.map, rawName, merged),
                         seen |-> acc.seen \cup {rawName}] :
                          merged \in {Assign(IF Has(acc.map, rawName)
                                               THEN Get(acc.map, rawName) ELSE <<>>,
                                             parseCSSVarBlock(content))}})
              ELSE [map |-> acc.map, seen |-> acc.seen \cup {rawName}]
            : content \in {extractBlockAt(cssText, index)}})

\* The while loop over themeSelRegex.exec(cssText) from lastIndex = from: the
\* block after the first selector of each theme name is parsed into map[name].
RECURSIVE themeLoop(_, _, _, _)
themeLoop(cssText, ends, from, acc) ==
  The({IF index = -1 THEN acc.map
       ELSE The({themeLoop(cssText, ends, ends[index], next) :
                   next \in {themeStep(cssText, acc, index,
                                trim(stripQuotes(slice(cssText,
                                       index + Len(Lit.themeSelector), ends[index] - 1))))}})
       : index \in {firstMatch(ends, from)}})

\* The map after the loop over all [data-theme=...] selectors.
collectThemes(cssText, map) ==
  The({themeLoop(cssText, ends, 0, [map |-> map, seen |-> {}]) :
         ends \in {[i \in 0..(Len(cssText) - 1) |-> themeMatchEnd(cssText, i)]}})

\* probeName
probeName == N.chartAlias

\* The capture of the probe's pattern, probeName\s*:\s*([^;]+);, matched at
\* position i, or <<>> when it does not match there.
probeMatchAt(cssText, i) ==
  IF ~startsAt(cssText, probeName, i) THEN <<>>
  ELSE The({IF colon < Len(cssText) /\ at(cssText, colon) = ":"
              THEN The({IF semi > colon + 1 THEN slice(cssText, colon + 1, semi) ELSE <<>> :
                          semi \in {indexOf(cssText, <<";">>, colon + 1)}})
              ELSE <<>>
            : colon \in {skipSpace(cssText, i + Len(probeName))}})

\* The fallback for the probe variable: when map.root lacks it and the text
\* holds 'probeName:', the first match of the pattern anywhere in the text
\* sets map.root[probeName].
probeFallback(cssText, map) ==
  IF \/ Has(Get(map, Key.root), probeName) /\ Get(Get(map, Key.root), probeName) # <<>>
     \/ indexOf(cssText, probeName \o <<":">>, 0) = -1
    THEN map
  ELSE The({IF hits = {} THEN map
            ELSE Set(map, Key.root,
                     Set(Get(map, Key.root), probeName,
                         trim(probeMatchAt(cssText, Min(hits)))))
            : hits \in {{i \in 0..(Len(cssText) - 1) : probeMatchAt(cssText, i) # <<>>}}})

\* parseTokensCSS(cssText)
parseTokensCSS(cssText) ==
  The({ The({probeFallback(cssText, map) :
               map \in {collectThemes(cssText, Obj(<< <<Key.root, root>> >>))}})
        : root \in {collectRoot(cssText)} })

----------------------------------------------------------------------------
(* The theme preference of the token explorer *)

\* localStorage.getItem(key) of a key that has no item: null.
NoItem == [has |-> FALSE, value |-> <<>>]

\* The item of a key that has one.
Item(text) == [has |-> TRUE, value |-> text]

\* The document element without the attribute data-theme.
NoAttribute == [has |-> FALSE, value |-> <<>>]

\* The document element with the attribute data-theme.
Attribute(value) == [has |-> TRUE, value |-> value]

\* The value a select element has after `select.value = value`: the value of
\* the option chosen, '' when no option has the value; the options are taken
\* to be this.availableThemes.
selectValue(value) ==
  IF \E i \in 1..Len(availableThemes) : availableThemes[i] = value THEN value ELSE <<>>

\* JSON.stringify({ theme }) of a theme without a character to escape.
JSONStringify(theme) == Pref.themeOpen \o theme \o Pref.themeClose

\* JSON.parse(raw) of the texts 'null', '{}' and '{"theme":"<text>"}'; any
\* other text here is no JSON text and throws a SyntaxError.
JSONParse(raw) ==
  IF raw = Pref.null
    THEN [threw |-> FALSE, isNull |-> TRUE, hasTheme |-> FALSE, theme |-> <<>>]
  ELSE IF raw = Pref.emptyObject
    THEN [threw |-> FALSE, isNull |-> FALSE, hasTheme |-> FALSE, theme |-> <<>>]
  ELSE IF /\ startsWith(raw, Pref.themeOpen)
          /\ Len(raw) >= Len(Pref.themeOpen) + Len(Pref.themeClose)
          /\ SubSeq(raw, Len(raw) - Len(Pref.themeClose) + 1, Len(raw)) = Pref.themeClose
          /\ ~includes(slice(raw, Len(Pref.themeOpen), Len(raw) - Len(Pref.themeClose)),
                       <<"\"">>)
    THEN [threw |-> FALSE, isNull |-> FALSE, hasTheme |-> TRUE,
          theme |-> slice(raw, Len(Pref.themeOpen), Len(raw) - Len(Pref.themeClose))]
  ELSE [threw |-> TRUE, isNull |-> FALSE, hasTheme |-> FALSE, theme |-> <<>>]

\* persistPreferences without its call of setItem: the item stays as it is.
persistPreferencesUnwritten(theme, item, throws) == item

\* persistPreferences(): the item of 'prismTokensPrefs' afterwards; an
\* exception of setItem is caught and leaves the item as it is.
persistPreferences(theme, item, throws) ==
  IF throws.setItem THEN item ELSE Item(JSONStringify(theme))

\* restorePreferences(): this.currentTheme and the value of the selector
\* afterwards. An exception of getItem, of JSON.parse or of reading the theme
\* of null is caught and ends the method; so does an item that is missing or
\* empty. A theme that is missing or empty leaves this.currentTheme.
restorePreferences(theme, selector, item, throws) ==
  IF throws.getItem \/ ~item.has \/ item.value = <<>>
    THEN [currentTheme |-> theme, themeSelector |-> selector]
  ELSE The({IF prefs.threw \/ prefs.isNull
              THEN [currentTheme |-> theme, themeSelector |-> selector]
            ELSE IF prefs.hasTheme /\ prefs.theme # <<>>
              THEN [currentTheme |-> prefs.theme, themeSelector |-> selectValue(prefs.theme)]
            ELSE [currentTheme |-> theme, themeSelector |-> selectValue(theme)]
            : prefs \in {JSONParse(item.value)}})

\* applyTheme(theme): the attribute data-theme of the document element
\* afterwards.
applyTheme(theme) ==
  IF theme = Theme.light THEN NoAttribute ELSE Attribute(theme)

----------------------------------------------------------------------------
(* The copy operations *)

\* copyToken, copyToClipboard, copyHexValues, copyLookerSnippet
CopyOperations == {"copyToken", "copyToClipboard", "copyHexValues", "copyLookerSnippet"}

\* An operation that has not been called: no promise, no clipboard write.
NotCalled == [call |-> "none", write |-> "none", name |-> <<>>, text |-> <<>>]

----------------------------------------------------------------------------
(* TokenExplorerTool: renderAllTokens and renderSidebar *)

\* String.prototype.toLowerCase
toLowerCase(s) ==
  [i \in 1..Len(s) |->
     IF CharCode[s[i]] \in 65..90
       THEN CHOOSE c \in DOMAIN CharCode : CharCode[c] = CharCode[s[i]] + 32
       ELSE s[i]]

\* A character that /[^a-z0-9]/ does not match.
isSlugChar(c) == CharCode[c] \in (48..57) \cup (97..122)

\* slugify(label): the lower-case label with every run of other characters
\* replaced by a hyphen and without hyphens at its ends; 'section' when
\* nothing is left.
slugify(label) ==
  The({ The({IF trimmed = <<>> THEN Nav.section ELSE trimmed
             : trimmed \in {IF \A i \in 1..Len(hyphened) : hyphened[i] = "-"
                              THEN <<>>
                              ELSE SubSeq(hyphened,
                                     Min({i \in 1..Len(hyphened) : hyphened[i] # "-"}),
                                     Max({i \in 1..Len(hyphened) : hyphened[i] # "-"}))}})
        : hyphened \in {The({[k \in 1..Len(kept) |->
                                IF isSlugChar(lower[kept[k]]) THEN lower[kept[k]] ELSE "-"]
                             : kept \in {ascending({i \in 1..Len(lower) :
                                           \/ isSlugChar(lower[i])
                                           \/ i = 1
                                           \/ isSlugChar(lower[i - 1])})}})
                        : lower \in {toLowerCase(label)}} })

\* getCategoryAnchorId(categoryName)
getCategoryAnchorId(categoryName) == Nav.anchorPrefix \o slugify(categoryName)

\* getSubcategoryAnchorId(categoryName, subcategoryName)
getSubcategoryAnchorId(categoryName, subcategoryName) ==
  getCategoryAnchorId(categoryName) \o Nav.hyphen \o slugify(subcategoryName)

\* categoryHasSubcategories(categoryData): the first value is an object
\* without a property 'name'.
categoryHasSubcategories(categoryData) ==
  /\ categoryData # <<>>
  /\ categoryData[1].v.t = "obj"
  /\ ~Has(categoryData[1].v.o, Key.name)

\* filterToken of renderAllTokens: every token without a query, with one the
\* tokens whose lower-case name or value includes it.
filterToken(token, query) ==
  \/ query = <<>>
  \/ includes(toLowerCase(Prop(token.o, Key.name).s), query)
  \/ includes(toLowerCase(Prop(token.o, Key.value).s), query)

\* Object.values(tokensMap).filter(predicate).length
filteredCount(tokensMap, query) ==
  Cardinality({i \in 1..Len(tokensMap) : filterToken(tokensMap[i].v, query)})

\* The sum of the numbers of a sequence.
RECURSIVE sumOf(_)
sumOf(numbers) == IF numbers = <<>> THEN 0 ELSE Head(numbers) + sumOf(Tail(numbers))

\* renderCategorySection(...).count, 0 for a section that is null.
sectionCount(categoryData, query) ==
  IF categoryHasSubcategories(categoryData)
    THEN sumOf([i \in 1..Len(categoryData) |-> filteredCount(categoryData[i].v.o, query)])
    ELSE filteredCount(categoryData, query)

\* this.groupedTokens[this.currentTheme] || {}
themeTokensOf(grouped, theme) ==
  IF Has(grouped, theme) THEN Get(grouped, theme).o ELSE <<>>

\* `total` of renderAllTokens: the tokens of every category but 'All tokens'
\* that the query keeps.
totalRendered(grouped, theme, query) ==
  The({sumOf([i \in 1..Len(themeTokens) |->
                IF themeTokens[i].k = Key.AllTokens THEN 0
                ELSE sectionCount(themeTokens[i].v.o, query)])
       : themeTokens \in {themeTokensOf(grouped, theme)}})

\* getCategoryCount(categoryData)
getCategoryCount(categoryData) ==
  IF categoryHasSubcategories(categoryData)
    THEN sumOf([i \in 1..Len(categoryData) |-> Len(categoryData[i].v.o)])
    ELSE Len(categoryData)

\* The link of a category in the sidebar.
categoryLink(category, categoryData, hash) ==
  LET categoryHash == Nav.hash \o getCategoryAnchorId(category)
  IN [label |-> category,
      count |-> getCategoryCount(categoryData),
      active |-> \/ hash = categoryHash
                 \/ startsWith(hash, categoryHash \o Nav.hyphen)
                 \/ (hash = <<>> /\ category = Key.AllTokens)]

\* The links of the subcategories of a category that hold a token.
RECURSIVE subcategoryLinks(_, _, _)
subcategoryLinks(category, entries, hash) ==
  IF entries = <<>> THEN <<>>
  ELSE (IF Head(entries).v.o = <<>> THEN <<>>
        ELSE <<[label |-> Head(entries).k,
                count |-> Len(Head(entries).v.o),
                active |-> hash = Nav.hash \o getSubcategoryAnchorId(category,
                                                                     Head(entries).k)]>>)
       \o subcategoryLinks(category, Tail(entries), hash)

\* categories.forEach of renderSidebar, from the first of `entries` on.
RECURSIVE sidebarLinks(_, _)
sidebarLinks(entries, hash) ==
  IF entries = <<>> THEN <<>>
  ELSE (IF getCategoryCount(Head(entries).v.o) = 0 THEN <<>>
        ELSE <<categoryLink(Head(entries).k, Head(entries).v.o, hash)>>
               \o (IF categoryHasSubcategories(Head(entries).v.o)
                     THEN subcategoryLinks(Head(entries).k, Head(entries).v.o, hash)
                     ELSE <<>>))
       \o sidebarLinks(Tail(entries), hash)

\* renderSidebar(): the links of the categories of the current theme.
renderSidebar(grouped, theme, hash) == sidebarLinks(themeTokensOf(grouped, theme), hash)

\* renderAllTokens(): the sidebar is rendered again, and the token list is
\* shown when a token is rendered, the empty state otherwise.
renderAllTokens(grouped, theme, query, hash) ==
  /\ tokenListTheme' = theme
  /\ sideNav' = renderSidebar(grouped, theme, hash)
  /\ IF totalRendered(grouped, theme, query) > 0
       THEN tokenEmptyState' = "none" /\ tokenList' = "block"
       ELSE tokenList' = "none" /\ tokenEmptyState' = "block"

----------------------------------------------------------------------------
(* The classification of drawn property maps *)

\* The number of declarations of a drawn property map.
MaxVars == 3

\* All sequences of distinct elements of S of length at most n.
RECURSIVE DistinctSeqs(_, _)
DistinctSeqs(S, n) ==
  IF n = 0 THEN {<<>>}
  ELSE LET shorter == DistinctSeqs(S, n - 1)
       IN shorter \cup
          {Append(p[1], p[2]) : p \in
             {p \in shorter \X S : \A i \in 1..Len(p[1]) : p[1][i] # p[2]}}

\* The families of names a drawn map takes its names from.
NameGroups ==
  { {N.typo_a, N.spacing_sm, N.spacing_md, N.text_a, N.other},
    {N.chartAlias, N.chartCategorical, N.chartSequential, N.generalInfo, N.text_b},
    {N.legacy, N.radius_a, N.borderRadius_a, N.prismBorderRadius_a, N.shadow_a},
    {N.gradInteractive, N.gradGeneral, N.icon_a, N.interactive_a, N.background_a},
    {N.outline_a, N.border_a, N.elevation_a, N.text_a, N.text_b} }

\* A map that binds the names of a sequence to one value.
MapOf(names, value) == [i \in 1..Len(names) |-> [k |-> names[i], v |-> value]]

\* The raw maps drawn: root declarations, and overrides of theme dark.
DrawnRawMaps ==
  UNION { { IF p[2] = <<>>
              THEN Obj(<< <<Key.root, MapOf(p[1], V.px4)>> >>)
              ELSE Obj(<< <<Key.root, MapOf(p[1], V.px4)>>,
                          <<Theme.dark, MapOf(p[2], V.varRef)>> >>)
            : p \in
                {p \in DistinctSeqs(G, MaxVars) \X DistinctSeqs(G, MaxVars) :
                   Len(p[1]) + Len(p[2]) <= MaxVars} }
          : G \in NameGroups }

\* The state of the loader in a tool that was constructed and not asked to load.
Constructed ==
  /\ cssPathOverrides = <<>>
  /\ assetCandidates = <<>>
  /\ baseCandidates = <<>>
  /\ turn = 0
  /\ fetchLog = <<>>
  /\ baseCSS = <<>>
  /\ cssResolvedPath = <<>>
  /\ variantCSSParts = <<>>
  /\ requested = <<>>
  /\ loadingState = "none"
  /\ errorBanner = [display |-> "none", text |-> <<>>]
  /\ responseText = <<>>
  /\ paletteDescriptors = <<>>
  /\ copyNotification = [display |-> "", message |-> <<>>, error |-> FALSE]
  /\ notificationTimer = FALSE
  /\ emptyState = ""
  /\ paletteGrid = ""
  /\ consoleErrors = <<>>
  /\ blockText = <<>>
  /\ blockVars = <<>>
  /\ currentTheme = Theme.light
  /\ localStorage = NoItem
  /\ storageThrows = [getItem |-> FALSE, setItem |-> FALSE]
  /\ themeSelector = Theme.light
  /\ dataTheme = NoAttribute
  /\ tokenListTheme = <<>>
  /\ copyPromise = [op \in CopyOperations |-> NotCalled]
  /\ clipboard = <<>>
  /\ tokenNotification = [display |-> "", message |-> <<>>, error |-> FALSE]
  /\ tokenTimers = <<>>
  /\ shown = 0
  /\ buttonText = [hex |-> Copy.hexLabel, looker |-> Copy.lookerLabel]
  /\ buttonTimers = <<>>
  /\ copies = 0
  /\ blockStart = 0
  /\ blockContent = <<>>
  /\ fullPalette = <<>>
  /\ tintCount = 0
  /\ activePalette = <<>>
  /\ tokenList = ""
  /\ tokenEmptyState = ""
  /\ sideNav = <<>>
  /\ searchQuery = <<>>
  /\ locationHash = <<>>
  /\ currentCategory = Pal.general

InitBuild ==
  /\ pc = "parsed"
  /\ mergedCSS = <<>>
  /\ rawMap \in DrawnRawMaps
  /\ groupedTokens = <<>>
  /\ Constructed

\* this.groupedTokens = this.buildGroupedTokens(parsed)
Classify ==
  /\ pc = "parsed"
  /\ UNCHANGED <<paletteVars, blockState, prefVars, copyVars, extractVars, selectVars, renderedVars, queryVars>>
  /\ groupedTokens' = buildGroupedTokens(rawMap)
  /\ pc' = "done"
  /\ UNCHANGED <<mergedCSS, rawMap, loadVars>>

NextBuild == Classify

SpecBuild == InitBuild /\ [][NextBuild]_vars

----------------------------------------------------------------------------
(* The parsing of drawn stylesheet texts *)

\* The number of pieces (selectors and declarations) of a drawn text.
MaxPieces == 4

Selectors == {Sel.root, Sel.dark, Sel.darkBare, Sel.card}

Declarations == {Decl.sm4, Decl.sm6, Decl.probe}

\* All sequences of elements of S of length at most n.
RECURSIVE SeqsUpTo(_, _)
SeqsUpTo(S, n) ==
  IF n = 0 THEN {<<>>}
  ELSE LET shorter == SeqsUpTo(S, n - 1)
       IN shorter \cup {Append(p[1], p[2]) : p \in shorter \X S}

\* The text of a sequence of pieces: a selector opens a block, closing the
\* block before it; a declaration stands where it is; blocks are separated by
\* a space.
RECURSIVE TextOf(_, _)
TextOf(pieces, open) ==
  IF pieces = <<>> THEN (IF open THEN <<"}">> ELSE <<>>)
  ELSE IF Head(pieces) \in Selectors
    THEN (IF open THEN <<"}", " ">> ELSE <<>>)
           \o Head(pieces) \o <<"{">> \o TextOf(Tail(pieces), TRUE)
    ELSE Head(pieces) \o TextOf(Tail(pieces), open)

DrawnTexts ==
  {TextOf(pieces, FALSE) : pieces \in SeqsUpTo(Selectors \cup Declarations, MaxPieces)}

InitParse ==
  /\ pc = "text"
  /\ mergedCSS \in DrawnTexts
  /\ rawMap = <<>>
  /\ groupedTokens = <<>>
  /\ Constructed

\* const parsed = this.parseTokensCSS(mergedCSS)
Parse ==
  /\ pc = "text"
  /\ UNCHANGED <<paletteVars, blockState, prefVars, copyVars, extractVars, selectVars, renderedVars, queryVars>>
  /\ rawMap' = parseTokensCSS(mergedCSS)
  /\ pc' = "parsed"
  /\ UNCHANGED <<mergedCSS, groupedTokens, loadVars>>

NextParse == Parse \/ Classify

SpecParse == InitParse /\ [][NextParse]_vars

----------------------------------------------------------------------------
(* loadTokensFromCSS *)

\* The number of candidates the asset resolver returns.
MaxCandidates == 2

\* The number of cssPath overrides given to the constructor.
MaxOverrides == 1

\* The locations the asset resolver's candidates are drawn from.
AssetPaths == {Path.vendor, Path.dotVendor}

\* The locations the cssPath option is drawn from.
OverridePaths == {Path.bare, Path.vendor}

\* The statuses a response is drawn from.
Statuses == {200, 404}

\* Response.ok
ok(status) == status \in 200..299

\* The texts a base stylesheet is drawn from: an empty one, one without a
\* ':root' block and one with.
BaseBodies ==
  { <<>>, TextOf(<<Sel.card, Decl.sm4>>, FALSE), TextOf(<<Sel.root, Decl.sm4>>, FALSE) }

\* The texts a variant theme file is drawn from.
VariantBodies == { TextOf(<<Sel.dark, Decl.sm6>>, FALSE) }

\* String(n) of a status
RECURSIVE toString(_)
toString(n) ==
  LET digit == <<"0", "1", "2", "3", "4", "5", "6", "7", "8", "9">>
  IN IF n < 10 THEN <<digit[n + 1]>>
     ELSE toString(n \div 10) \o <<digit[(n % 10) + 1]>>

\* Array.from(new Set(values)): each value once, at its first place.
RECURSIVE unique(_, _)
unique(values, kept) ==
  IF values = <<>> THEN kept
  ELSE unique(Tail(values),
              IF \E i \in 1..Len(kept) : kept[i] = Head(values)
                THEN kept ELSE Append(kept, Head(values)))

\* Array.prototype.join
RECURSIVE join(_, _)
join(parts, separator) ==
  IF parts = <<>> THEN <<>>
  ELSE IF Len(parts) = 1 THEN parts[1]
  ELSE parts[1] \o separator \o join(Tail(parts), separator)

\* path.replace(/[^\/]+$/, ''): the path without its last segment.
dirOf(path) ==
  The({IF slashes = {} THEN <<>> ELSE SubSeq(path, 1, Max(slashes)) :
         slashes \in {{i \in 1..Len(path) : path[i] = "/"}}})

\* url.replace(/\/+/g, '/'): every run of slashes becomes one slash.
collapseSlashes(url) ==
  The({[k \in 1..Len(kept) |-> at(url, kept[k])] :
         kept \in {ascending({i \in 0..(Len(url) - 1) :
                     ~(at(url, i) = "/" /\ i > 0 /\ at(url, i - 1) = "/")})}})

\* variantFiles, by file name
variantFiles == <<File.dark, File.highcontrastLight, File.highcontrastDark>>

\* baseDir
baseDir(resolvedPath) ==
  IF resolvedPath # <<>> THEN dirOf(resolvedPath) ELSE Path.stylesDir

\* The URL of a variant file: `${baseDir}${v.file}`.replace(/\/+/g, '/')
variantUrl(dir, file) == collapseSlashes(dir \o file)

\* The candidate lists a tool is constructed with.
DrawnCandidates ==
  {c \in SeqsUpTo(OverridePaths, MaxOverrides) \X DistinctSeqs(AssetPaths, MaxCandidates) :
     c[2] # <<>>}

\* The tool after its constructor: nothing loaded, nothing shown.
Init ==
  /\ pc = "init"
  /\ mergedCSS = <<>>
  /\ rawMap = <<>>
  /\ groupedTokens = <<>>
  /\ \E c \in DrawnCandidates : cssPathOverrides = c[1] /\ assetCandidates = c[2]
  /\ baseCandidates = <<>>
  /\ turn = 0
  /\ fetchLog = <<>>
  /\ baseCSS = <<>>
  /\ cssResolvedPath = <<>>
  /\ variantCSSParts = <<>>
  /\ requested = <<>>
  /\ loadingState = "none"
  /\ errorBanner = [display |-> "none", text |-> <<>>]
  /\ responseText = <<>>
  /\ paletteDescriptors = <<>>
  /\ copyNotification = [display |-> "", message |-> <<>>, error |-> FALSE]
  /\ notificationTimer = FALSE
  /\ emptyState = ""
  /\ paletteGrid = ""
  /\ consoleErrors = <<>>
  /\ blockText = <<>>
  /\ blockVars = <<>>
  /\ currentTheme = Theme.light
  /\ localStorage = NoItem
  /\ storageThrows = [getItem |-> FALSE, setItem |-> FALSE]
  /\ themeSelector = Theme.light
  /\ dataTheme = NoAttribute
  /\ tokenListTheme = <<>>
  /\ copyPromise = [op \in CopyOperations |-> NotCalled]
  /\ clipboard = <<>>
  /\ tokenNotification = [display |-> "", message |-> <<>>, error |-> FALSE]
  /\ tokenTimers = <<>>
  /\ shown = 0
  /\ buttonText = [hex |-> Copy.hexLabel, looker |-> Copy.lookerLabel]
  /\ buttonTimers = <<>>
  /\ copies = 0
  /\ blockStart = 0
  /\ blockContent = <<>>
  /\ fullPalette = <<>>
  /\ tintCount = 0
  /\ activePalette = <<>>
  /\ tokenList = ""
  /\ tokenEmptyState = ""
  /\ sideNav = <<>>
  /\ searchQuery = <<>>
  /\ locationHash = <<>>
  /\ currentCategory = Pal.general

\* The failure branch with a banner that names the last attempt only.
LoadFailedLastAttempt(log) ==
  /\ fetchLog' = log
  /\ loadingState' = "none"
  /\ errorBanner' = [display |-> "block",
                     text |-> Lit.failedPrefix \o log[Len(log)]]
  /\ pc' = "failed"
  /\ UNCHANGED <<tokenVars, turn, requested, variantCSSParts, renderedVars>>

\* if (!baseCSS) { hideLoading(); showErrorBanner(...); return; }
LoadFailed(log) ==
  /\ fetchLog' = log
  /\ loadingState' = "none"
  /\ errorBanner' = [display |-> "block",
                     text |-> Lit.failedPrefix \o join(log, Lit.commaSpace)]
  /\ pc' = "failed"
  /\ UNCHANGED <<tokenVars, turn, requested, variantCSSParts, renderedVars>>

\* The for loop over baseCandidates goes on to its next turn and fetches, or
\* is over without a stylesheet.
NextCandidate(candidates, log) ==
  IF turn < Len(candidates)
    THEN /\ turn' = turn + 1
         /\ requested' = Append(requested, candidates[turn + 1])
         /\ fetchLog' = log
         /\ pc' = "fetchBase"
         /\ UNCHANGED <<tokenVars, variantCSSParts, loadingState, errorBanner,
                        renderedVars>>
    ELSE LoadFailed(log)

\* The statements after the loop over variantFiles: the texts are merged,
\* parsed and classified, the loading indicator is hidden and the display is
\* updated.
Finish(parts) ==
  /\ variantCSSParts' = parts
  /\ mergedCSS' = join(parts, Lit.newline)
  /\ rawMap' = parseTokensCSS(mergedCSS')
  /\ groupedTokens' = buildGroupedTokens(rawMap')
  /\ loadingState' = "none"
  /\ renderAllTokens(groupedTokens', currentTheme, searchQuery, locationHash)
  /\ pc' = "done"
  /\ UNCHANGED <<turn, requested, errorBanner>>

\* The for loop over variantFiles goes on to its next turn and fetches, or is
\* over.
NextVariant(dir, parts, next) ==
  IF dir # <<>> /\ next <= Len(variantFiles)
    THEN /\ turn' = next
         /\ requested' = Append(requested, variantUrl(dir, variantFiles[next]))
         /\ variantCSSParts' = parts
         /\ pc' = "fetchVariant"
         /\ UNCHANGED <<tokenVars, loadingState, errorBanner, renderedVars>>
    ELSE Finish(parts)

\* loadTokensFromCSS up to its first await, called on the tool as constructed
\* or by init after restorePreferences.
StartLoad ==
  /\ pc \in {"init", "restored"}
  /\ UNCHANGED <<paletteVars, blockState, prefVars, copyVars, extractVars, selectVars, queryVars>>
  /\ loadingState' = "flex"
  /\ tokenList' = "none"
  /\ tokenEmptyState' = "none"
  /\ UNCHANGED <<tokenListTheme, sideNav>>
  /\ baseCandidates' = unique(cssPathOverrides \o assetCandidates, <<>>)
  /\ baseCSS' = <<>>
  /\ turn' = 1
  /\ requested' = Append(requested, baseCandidates'[1])
  /\ fetchLog' = <<>>
  /\ pc' = "fetchBase"
  /\ UNCHANGED <<tokenVars, cssPathOverrides, assetCandidates, cssResolvedPath,
                 variantCSSParts, errorBanner, blockState, prefVars, copyVars, extractVars, selectVars, queryVars>>

\* await fetch(p) rejects: the catch logs a network error.
BaseFetchRejects ==
  /\ pc = "fetchBase"
  /\ UNCHANGED <<paletteVars, blockState, prefVars, copyVars, extractVars, selectVars, queryVars>>
  /\ NextCandidate(baseCandidates,
       Append(fetchLog, baseCandidates[turn] \o Lit.networkErrorSuffix))
  /\ UNCHANGED <<cssPathOverrides, assetCandidates, baseCandidates, baseCSS,
                 cssResolvedPath>>

\* await fetch(p) resolves: the status is logged; a response that is ok is
\* read, another one ends the turn.
BaseFetchResolves ==
  /\ pc = "fetchBase"
  /\ UNCHANGED <<paletteVars, blockState, prefVars, copyVars, extractVars, selectVars, queryVars>>
  /\ \E status \in Statuses :
       LET log == Append(fetchLog, baseCandidates[turn] \o Lit.arrow \o toString(status))
       IN IF ok(status)
            THEN /\ fetchLog' = log
                 /\ pc' = "readBase"
                 /\ UNCHANGED <<tokenVars, turn, requested, variantCSSParts,
                                loadingState, errorBanner, renderedVars>>
            ELSE NextCandidate(baseCandidates, log)
  /\ UNCHANGED <<cssPathOverrides, assetCandidates, baseCandidates, baseCSS,
                 cssResolvedPath>>

\* await resp.text() rejects: the catch logs a network error.
BaseTextRejects ==
  /\ pc = "readBase"
  /\ UNCHANGED <<paletteVars, blockState, prefVars, copyVars, extractVars, selectVars, queryVars>>
  /\ NextCandidate(baseCandidates,
       Append(fetchLog, baseCandidates[turn] \o Lit.networkErrorSuffix))
  /\ UNCHANGED <<cssPathOverrides, assetCandidates, baseCandidates, baseCSS,
                 cssResolvedPath>>

\* await resp.text() resolves: the loop is left with baseCSS and
\* cssResolvedPath set; an empty text is a failure, another one is followed by
\* the variant files.
BaseTextResolves ==
  /\ pc = "readBase"
  /\ UNCHANGED <<paletteVars, blockState, prefVars, copyVars, extractVars, selectVars, queryVars>>
  /\ \E body \in BaseBodies :
       /\ baseCSS' = body
       /\ cssResolvedPath' = baseCandidates[turn]
       /\ IF body = <<>>
            THEN LoadFailed(fetchLog)
            ELSE /\ NextVariant(baseDir(cssResolvedPath'), <<body>>, 1)
                 /\ UNCHANGED fetchLog
  /\ UNCHANGED <<cssPathOverrides, assetCandidates, baseCandidates>>

\* await fetch(url) of a variant file rejects, or resolves with a response
\* that is not ok: the file adds nothing.
VariantFetchFails ==
  /\ pc = "fetchVariant"
  /\ UNCHANGED <<paletteVars, blockState, prefVars, copyVars, extractVars, selectVars, queryVars>>
  /\ NextVariant(baseDir(cssResolvedPath), variantCSSParts, turn + 1)
  /\ UNCHANGED <<cssPathOverrides, assetCandidates, baseCandidates, fetchLog,
                 baseCSS, cssResolvedPath>>

\* await fetch(url) of a variant file resolves with a response that is ok.
VariantFetchResolves ==
  /\ pc = "fetchVariant"
  /\ UNCHANGED <<paletteVars, blockState, prefVars, copyVars, extractVars, selectVars, queryVars>>
  /\ pc' = "readVariant"
  /\ UNCHANGED <<tokenVars, loadVars, renderedVars>>

\* await resp.text() of a variant file rejects: the file adds nothing.
VariantTextRejects ==
  /\ pc = "readVariant"
  /\ UNCHANGED <<paletteVars, blockState, prefVars, copyVars, extractVars, selectVars, queryVars>>
  /\ NextVariant(baseDir(cssResolvedPath), variantCSSParts, turn + 1)
  /\ UNCHANGED <<cssPathOverrides, assetCandidates, baseCandidates, fetchLog,
                 baseCSS, cssResolvedPath>>

\* await resp.text() of a variant file resolves: its text is appended under a
\* comment naming the file.
VariantTextResolves ==
  /\ pc = "readVariant"
  /\ UNCHANGED <<paletteVars, blockState, prefVars, copyVars, extractVars, selectVars, queryVars>>
  /\ \E text \in VariantBodies :
       NextVariant(baseDir(cssResolvedPath),
                   Append(variantCSSParts,
                          Lit.partOpen \o variantFiles[turn] \o Lit.partClose \o text),
                   turn + 1)
  /\ UNCHANGED <<cssPathOverrides, assetCandidates, baseCandidates, fetchLog,
                 baseCSS, cssResolvedPath>>

Next ==
  \/ StartLoad
  \/ BaseFetchRejects
  \/ BaseFetchResolves
  \/ BaseTextRejects
  \/ BaseTextResolves
  \/ VariantFetchFails
  \/ VariantFetchResolves
  \/ VariantTextRejects
  \/ VariantTextResolves

Spec == Init /\ [][Next]_vars

----------------------------------------------------------------------------
(* PalettesExplorerApp: the palette descriptors *)

\* parseVarBlock's while loop over varRegex.exec(sanitized) from lastIndex =
\* from, where matches[i] is the attempt of /(--[\w-]+)\s*:\s*([^;]+);/ at
\* position i: vars[name.trim()] = value.trim() for each match.
RECURSIVE paletteVarLoop(_, _, _)
paletteVarLoop(matches, from, acc) ==
  The({IF hits = {} THEN acc
       ELSE The({paletteVarLoop(matches, match.end,
                                Set(acc, Prefix.dashDash \o trim(match.name),
                                    trim(match.value)))
                 : match \in {matches[Min(hits)]}})
       : hits \in {{i \in DOMAIN matches : i >= from /\ matches[i].end # -1}}})

\* parseVarBlock(block): comments become a space, then every declaration the
\* pattern finds is recorded.
parseVarBlock(block) ==
  The({ The({paletteVarLoop(matches, 0, <<>>) :
               matches \in {[i \in 0..(Len(sanitized) - 1) |-> varMatchAt(sanitized, i)]}})
        : sanitized \in
            {The({replaceAll(block, ends, Pal.space, 0) :
                    ends \in {[i \in 0..(Len(block) - 1) |-> commentEnd(block, i, TRUE)]}})} })

\* The capture of /:root\s*\{([\s\S]*?)\}/ attempted at position i: the
\* positions <<from, to>> of the block's text, or <<-1, -1>>.
paletteRootMatchAt(cssText, i) ==
  IF ~startsAt(cssText, Pal.rootOpen, i) THEN <<-1, -1>>
  ELSE The({IF open < Len(cssText) /\ at(cssText, open) = "{"
              THEN The({IF close = -1 THEN <<-1, -1>> ELSE <<open + 1, close>> :
                          close \in {indexOf(cssText, Pal.closeBrace, open + 1)}})
              ELSE <<-1, -1>>
            : open \in {skipSpace(cssText, i + Len(Pal.rootOpen))}})

\* extractCSSVars(cssText, 'light').rootVars: the declarations of the first
\* match of the pattern, none without a match.  (For the theme 'light', the
\* one parsePaletteDescriptors asks for, no overrides are collected.)
extractCSSVars(cssText) ==
  The({IF hits = {} THEN <<>>
       ELSE The({parseVarBlock(slice(cssText, m[1], m[2])) :
                   m \in {paletteRootMatchAt(cssText, Min(hits))}})
       : hits \in {{i \in 0..(Len(cssText) - 1) :
                      paletteRootMatchAt(cssText, i)[1] # -1}}})

\* The regular expression class [0-9].
IsDigit(c) == CharCode[c] \in 48..57

\* The regular expression class [a-z0-9-] under the flag i.
IsFamilyChar(c) ==
  \/ c = "-"
  \/ IsDigit(c)
  \/ CharCode[c] \in 65..90
  \/ CharCode[c] \in 97..122

\* The character a pattern character and a text character are compared by
\* under the flag i: a letter's upper case, any other character itself.
canonicalize(c) ==
  IF CharCode[c] \in 97..122
    THEN CHOOSE u \in DOMAIN CharCode : CharCode[u] = CharCode[c] - 32
    ELSE c

\* Whether the literal text p of a pattern with the flag i matches at the
\* start of s.
startsWithIgnoringCase(s, p) ==
  /\ Len(s) >= Len(p)
  /\ \A i \in 1..Len(p) : canonicalize(s[i]) = canonicalize(p[i])

\* A failed name.match(...).
NoRamp == [matched |-> FALSE, family |-> <<>>, step |-> <<>>]

\* name.match(/^<prefix>([a-z0-9-]+)-([0-9]{min,max})$/i): the step is what
\* follows the last hyphen (a step holds none), the family what stands between
\* the prefix and that hyphen.
rampMatch(name, prefix, min, max) ==
  IF ~startsWithIgnoringCase(name, prefix) THEN NoRamp
  ELSE The({IF hyphens = {} THEN NoRamp
            ELSE The({IF /\ Len(step) \in min..max
                         /\ \A i \in 1..Len(step) : IsDigit(step[i])
                         /\ family # <<>>
                         /\ \A i \in 1..Len(family) : IsFamilyChar(family[i])
                        THEN [matched |-> TRUE, family |-> family, step |-> step]
                        ELSE NoRamp
                      : <<family, step>> \in
                          {<<slice(name, Len(prefix), Max(hyphens)),
                             slice(name, Max(hyphens) + 1, Len(name))>>}})
            : hyphens \in {{i \in Len(prefix)..(Len(name) - 1) : at(name, i) = "-"}}})

\* name.match(/^--prism-color-chart-categorical-([0-9]{2})$/i)
categoricalMatch(name) ==
  IF ~startsWithIgnoringCase(name, Pal.categoricalPrefix) THEN NoRamp
  ELSE The({IF Len(step) = 2 /\ \A i \in 1..2 : IsDigit(step[i])
              THEN [matched |-> TRUE, family |-> Pal.categorical, step |-> step]
              ELSE NoRamp
            : step \in {slice(name, Len(Pal.categoricalPrefix), Len(name))}})

\* value.replace(/;$/, '')
normalizedValue(value) ==
  IF value # <<>> /\ value[Len(value)] = ";" THEN SubSeq(value, 1, Len(value) - 1)
  ELSE value

\* buildSwatch(step, value, cssVarName, displayStep): the label is the display
\* step, or the step when none is given; a name 'var(...)' loses its wrapping.
buildSwatch(step, value, cssVarName, displayStep) ==
  [ step |-> step,
    displayStep |-> displayStep,
    fallback |-> normalizedValue(value),
    cssVar |-> IF startsWith(cssVarName, <<"v", "a", "r", "(">>)
                 THEN slice(cssVarName, 4, Len(cssVarName) - 1)
                 ELSE cssVarName ]

\* rows.get(family).push(swatch), after rows.set(family, []) for a new family:
\* a Map keeps its keys in insertion order.
pushSwatch(rows, family, swatch) ==
  IF Has(rows, family)
    THEN Set(rows, family, Append(Get(rows, family), swatch))
    ELSE Append(rows, [k |-> family, v |-> <<swatch>>])

\* Number.MAX_SAFE_INTEGER is 2^53 - 1.  The integers of the model have 32
\* bits and every index and step it meets is below 1000, so the greatest of
\* them stands for it.
MAX_SAFE_INTEGER == 2147483647

\* step.replace(/^0+/, '')
stripLeadingZeros(step) ==
  The({IF rest = {} THEN <<>> ELSE SubSeq(step, Min(rest), Len(step)) :
         rest \in {{i \in 1..Len(step) : step[i] # "0"}}})

\* parseInt(text, 10) of a text that starts with neither white space nor a
\* sign: the number its leading digits denote, NaN (here -1) without any.
RECURSIVE parseInt(_, _)
parseInt(text, value) ==
  IF text = <<>> \/ ~IsDigit(Head(text)) THEN value
  ELSE parseInt(Tail(text),
                (IF value = -1 THEN 0 ELSE value * 10) + CharCode[Head(text)] - 48)

\* parseNumericStep(step)
parseNumericStep(step) ==
  IF step = <<>> THEN MAX_SAFE_INTEGER
  ELSE The({IF cleaned = <<>> THEN 0
            ELSE The({IF value = -1 THEN MAX_SAFE_INTEGER ELSE value :
                        value \in {parseInt(cleaned, -1)}})
            : cleaned \in {stripLeadingZeros(step)}})

\* An array without its element at place m.
without(arr, m) == SubSeq(arr, 1, m - 1) \o SubSeq(arr, m + 1, Len(arr))

\* Array.prototype.sort with a comparator that compares the elements by the
\* numbers in `order`: the sort is stable, so of the elements that compare as
\* least the first one comes first.
RECURSIVE sortedBy(_, _)
sortedBy(arr, order) ==
  IF arr = <<>> THEN <<>>
  ELSE The({<<arr[m]>> \o sortedBy(without(arr, m), without(order, m)) :
              m \in {Min({i \in 1..Len(arr) :
                            \A j \in 1..Len(arr) : order[i] - order[j] <= 0})}})

\* The swatches of a row left in the order of their declarations.
swatchesAsDeclared(swatches) == swatches

\* swatches.sort((a, b) => sortFn(a.step) - sortFn(b.step)), sortFn being
\* parseNumericStep.
sortSwatches(swatches) ==
  sortedBy(swatches, [i \in 1..Len(swatches) |-> parseNumericStep(swatches[i].step)])

\* text.split('-'): the pieces between the hyphens, from position `from` on.
RECURSIVE split(_, _)
split(text, from) ==
  The({IF next = -1 THEN <<slice(text, from, Len(text))>>
       ELSE <<slice(text, from, next)>> \o split(text, next + 1)
       : next \in {indexOf(text, Pal.hyphen, from)}})

\* word.charAt(0).toUpperCase() + word.slice(1)
capitalize(word) ==
  IF word = <<>> THEN <<>> ELSE <<canonicalize(word[1])>> \o Tail(word)

\* formatLabel(family)
formatLabel(family) ==
  The({join([i \in 1..Len(words) |-> capitalize(words[i])], Pal.space) :
         words \in {split(family, 0)}})

\* The primary weight of a character of a label in the root collation: a
\* space before the digits, the digits before the letters, a letter with no
\* regard to its case.
primaryWeight(c) ==
  IF c = " " THEN 0
  ELSE IF IsDigit(c) THEN CharCode[c]
  ELSE CharCode[canonicalize(c)] + 100

\* a.localeCompare(b) for labels (letters, digits and spaces) in the root
\* collation: the first difference of primary weight decides, a text before
\* its extensions; between texts that differ in case only, the first
\* difference decides, lower case before upper case.
localeCompare(a, b) ==
  The({IF primary # {}
         THEN The({IF i > Len(a) THEN -1
                   ELSE IF i > Len(b) THEN 1
                   ELSE IF primaryWeight(a[i]) < primaryWeight(b[i]) THEN -1 ELSE 1
                   : i \in {Min(primary)}})
       ELSE The({IF cases = {} THEN 0
                 ELSE IF CharCode[a[Min(cases)]] > CharCode[b[Min(cases)]] THEN -1 ELSE 1
                 : cases \in {{i \in 1..Len(a) : a[i] # b[i]}}})
       : primary \in
           {{i \in 1..(Max({Len(a), Len(b)})) :
               \/ i > Len(a)
               \/ i > Len(b)
               \/ primaryWeight(a[i]) # primaryWeight(b[i])}}})

\* preferredOrder.indexOf(id), and MAX_SAFE_INTEGER for -1.
safeIdx(preferredOrder, id) ==
  The({IF places = {} THEN MAX_SAFE_INTEGER ELSE Min(places) - 1 :
         places \in {{i \in 1..Len(preferredOrder) : preferredOrder[i] = id}}})

\* The comparator of rowsArray.sort, on rows whose safe indexes are known.
compareRows(a, b, safeIdxA, safeIdxB) ==
  IF safeIdxA # safeIdxB THEN safeIdxA - safeIdxB
  ELSE localeCompare(a.label, b.label)

\* rowsArray.sort(...): the sort is stable, so of the rows that compare as
\* least the first one comes first.
RECURSIVE sortRows(_, _)
sortRows(rowsArray, idx) ==
  IF rowsArray = <<>> THEN <<>>
  ELSE The({<<rowsArray[m]>> \o sortRows(without(rowsArray, m), without(idx, m)) :
              m \in {Min({i \in 1..Len(rowsArray) :
                            \A j \in 1..Len(rowsArray) :
                              compareRows(rowsArray[i], rowsArray[j], idx[i], idx[j]) <= 0})}})

\* step.padStart(2, '0')
padStart2(step) ==
  IF Len(step) >= 2 THEN step
  ELSE [i \in 1..(2 - Len(step)) |-> "0"] \o step

\* GENERAL_ORDER
GENERAL_ORDER ==
  <<Pal.brand, Pal.info, Pal.success, Pal.warning, Pal.critical, Pal.intelligence,
    Pal.neutral>>

\* ALPHA_ORDER
ALPHA_ORDER ==
  <<Pal.info, Pal.success, Pal.warning, Pal.critical, Pal.intelligence, Pal.neutral,
    Pal.brand>>

\* CHART_ORDER
CHART_ORDER ==
  <<Pal.info, Pal.success, Pal.warning, Pal.critical, Pal.intelligence, Pal.neutral,
    Pal.brandSunset, Pal.categorical>>

\* The rows of orderRows before they are sorted: each family of the Map with
\* its label and its swatches sorted by numeric step.
rowsArrayOf(rowsMap) ==
  [i \in 1..Len(rowsMap) |->
     [id |-> rowsMap[i].k, label |-> formatLabel(rowsMap[i].k),
      swatches |-> sortSwatches(rowsMap[i].v)]]

\* The last statement of orderRows: with keepLeadingZero every display step is
\* the step padded to two digits.
withDisplaySteps(rowsArray, keepLeadingZero) ==
  IF ~keepLeadingZero THEN rowsArray
  ELSE [r \in 1..Len(rowsArray) |->
          [id |-> rowsArray[r].id, label |-> rowsArray[r].label,
           swatches |->
             [s \in 1..Len(rowsArray[r].swatches) |->
                [rowsArray[r].swatches[s] EXCEPT
                   !.displayStep = padStart2(rowsArray[r].swatches[s].step)]]]]

\* The rows as orderRows sorts them, given how it sorts.
orderRowsInsertionOrder(rowsMap, preferredOrder, keepLeadingZero) ==
  withDisplaySteps(rowsArrayOf(rowsMap), keepLeadingZero)

\* orderRows(rowsMap, preferredOrder, sortFn, options), sortFn being
\* parseNumericStep.
orderRows(rowsMap, preferredOrder, keepLeadingZero) ==
  The({withDisplaySteps(
         sortRows(rowsArray,
                  [i \in 1..Len(rowsArray) |-> safeIdx(preferredOrder, rowsArray[i].id)]),
         keepLeadingZero)
       : rowsArray \in {rowsArrayOf(rowsMap)}})

\* The callback of buildGeneralPalettes' forEach without its second return: a
\* name with the infix '-alpha-' is a general name like another.
generalStepKeepingAlpha(rows, name, value) ==
  IF ~startsWith(name, Pal.generalPrefix) THEN rows
  ELSE The({IF ~match.matched THEN rows
            ELSE pushSwatch(rows, match.family,
                            buildSwatch(match.step, value, name, match.step))
            : match \in {rampMatch(name, Pal.generalPrefix, 2, 3)}})

\* The callback of buildGeneralPalettes' forEach.
generalStep(rows, name, value) ==
  IF ~startsWith(name, Pal.generalPrefix) THEN rows
  ELSE IF includes(name, Pal.alphaInfix) THEN rows
  ELSE The({IF ~match.matched THEN rows
            ELSE pushSwatch(rows, match.family,
                            buildSwatch(match.step, value, name, match.step))
            : match \in {rampMatch(name, Pal.generalPrefix, 2, 3)}})

\* The callback of buildAlphaPalettes' forEach.
alphaStep(rows, name, value) ==
  IF ~startsWith(name, Pal.alphaPrefix) THEN rows
  ELSE The({IF ~match.matched THEN rows
            ELSE pushSwatch(rows, match.family,
                            buildSwatch(match.step, value, name, match.step))
            : match \in {rampMatch(name, Pal.alphaPrefix, 2, 3)}})

\* The callback of buildChartPalettes' forEach.
chartStep(rows, name, value) ==
  The({IF sequentialMatch.matched
         THEN pushSwatch(rows, sequentialMatch.family,
                         buildSwatch(sequentialMatch.step, value, name,
                                     sequentialMatch.step))
       ELSE The({IF match.matched
                   THEN pushSwatch(rows, Pal.categorical,
                                   buildSwatch(match.step, value, name, match.step))
                   ELSE rows
                 : match \in {categoricalMatch(name)}})
       : sequentialMatch \in {rampMatch(name, Pal.sequentialPrefix, 2, 2)}})

\* Object.entries(rootVars).forEach(...) of the builder `set`, from the rows
\* collected so far.
RECURSIVE collectRows(_, _, _)
collectRows(entries, set, rows) ==
  IF entries = <<>> THEN rows
  ELSE The({collectRows(Tail(entries), set, next) :
              next \in {IF set = Pal.general
                          THEN generalStep(rows, Head(entries).k, Head(entries).v)
                        ELSE IF set = Pal.alpha
                          THEN alphaStep(rows, Head(entries).k, Head(entries).v)
                        ELSE chartStep(rows, Head(entries).k, Head(entries).v)}})

\* buildGeneralPalettes(rootVars)
buildGeneralPalettes(rootVars) ==
  orderRows(collectRows(rootVars, Pal.general, <<>>), GENERAL_ORDER, FALSE)

\* buildAlphaPalettes(rootVars)
buildAlphaPalettes(rootVars) ==
  orderRows(collectRows(rootVars, Pal.alpha, <<>>), ALPHA_ORDER, FALSE)

\* buildChartPalettes(rootVars)
buildChartPalettes(rootVars) ==
  orderRows(collectRows(rootVars, Pal.chart, <<>>), CHART_ORDER, TRUE)

\* parsePaletteDescriptors(cssText)
parsePaletteDescriptors(cssText) ==
  The({Obj(<< <<Pal.general, buildGeneralPalettes(rootVars)>>,
              <<Pal.alpha, buildAlphaPalettes(rootVars)>>,
              <<Pal.chart, buildChartPalettes(rootVars)>> >>)
       : rootVars \in {extractCSSVars(cssText)}})

----------------------------------------------------------------------------
(* The palette descriptors of drawn stylesheet texts *)

\* The families of names a drawn stylesheet takes its names from.
PaletteNameGroups ==
  { {PN.info50, PN.info050, PN.info100, PN.info05, PN.brand10, PN.info1000},
    {PN.alphaInfo20, PN.alphaInfo10, PN.alphaInfo010, PN.alpha10, PN.midAlpha10,
     PN.ALPHAInfo10, PN.info50},
    {PN.zeta10, PN.Acme10, PN.acme20, PN.acB10, PN.brand10, PN.neutral10},
    {PN.seqInfo01, PN.seqInfo02, PN.seqInfo00, PN.seqInfo010, PN.cat01, PN.cat02},
    {PN.seqSunset01, PN.seqZulu01, PN.seqMike01, PN.seqCategorical03, PN.cat1,
     PN.CAT04, PN.chartAlias},
    {PN.alphaBrand10, PN.alphaZeta10, PN.alphaInfo10, PN.alphaInfo20, PN.brand10,
     PN.info5} }

\* The raw values of the declarations of a drawn stylesheet, by place.
PaletteValues == <<PV.first, PV.second, PV.third, PV.fourth>>

\* The value of the declaration at place i.
ValueAt(i) == PaletteValues[((i - 1) % Len(PaletteValues)) + 1]

\* The declarations 'name:value;' of the names from place i on.
RECURSIVE DeclarationsOf(_, _)
DeclarationsOf(names, i) ==
  IF i > Len(names) THEN <<>>
  ELSE names[i] \o <<":">> \o ValueAt(i) \o <<";">> \o DeclarationsOf(names, i + 1)

\* The stylesheet ':root{...}' that declares the names in their order.
SheetOf(names) ==
  Pal.rootOpen \o Pal.openBrace \o DeclarationsOf(names, 1) \o Pal.closeBrace

DrawnSheets ==
  UNION { {SheetOf(names) : names \in DistinctSeqs(G, MaxVars)} : G \in PaletteNameGroups }

InitPalettes ==
  /\ pc = "sheet"
  /\ responseText \in DrawnSheets
  /\ paletteDescriptors = <<>>
  /\ copyNotification = [display |-> "", message |-> <<>>, error |-> FALSE]
  /\ notificationTimer = FALSE
  /\ emptyState = ""
  /\ paletteGrid = ""
  /\ consoleErrors = <<>>
  /\ blockText = <<>>
  /\ blockVars = <<>>
  /\ currentTheme = Theme.light
  /\ localStorage = NoItem
  /\ storageThrows = [getItem |-> FALSE, setItem |-> FALSE]
  /\ themeSelector = Theme.light
  /\ dataTheme = NoAttribute
  /\ tokenListTheme = <<>>
  /\ copyPromise = [op \in CopyOperations |-> NotCalled]
  /\ clipboard = <<>>
  /\ tokenNotification = [display |-> "", message |-> <<>>, error |-> FALSE]
  /\ tokenTimers = <<>>
  /\ shown = 0
  /\ buttonText = [hex |-> Copy.hexLabel, looker |-> Copy.lookerLabel]
  /\ buttonTimers = <<>>
  /\ copies = 0
  /\ blockStart = 0
  /\ blockContent = <<>>
  /\ fullPalette = <<>>
  /\ tintCount = 0
  /\ activePalette = <<>>
  /\ tokenList = ""
  /\ tokenEmptyState = ""
  /\ sideNav = <<>>
  /\ searchQuery = <<>>
  /\ locationHash = <<>>
  /\ currentCategory = Pal.general
  /\ mergedCSS = <<>>
  /\ rawMap = <<>>
  /\ groupedTokens = <<>>
  /\ cssPathOverrides = <<>>
  /\ assetCandidates = <<>>
  /\ baseCandidates = <<>>
  /\ turn = 0
  /\ fetchLog = <<>>
  /\ baseCSS = <<>>
  /\ cssResolvedPath = <<>>
  /\ variantCSSParts = <<>>
  /\ requested = <<>>
  /\ loadingState = "none"
  /\ errorBanner = [display |-> "none", text |-> <<>>]

\* this.paletteDescriptors = this.parsePaletteDescriptors(responseText)
ParseDescriptors ==
  /\ pc = "sheet"
  /\ paletteDescriptors' = parsePaletteDescriptors(responseText)
  /\ pc' = "described"
  /\ UNCHANGED <<responseText, paletteShown, tokenVars, loadVars, blockState, prefVars, copyVars, extractVars, selectVars, renderedVars, queryVars>>

NextPalettes == ParseDescriptors

SpecPalettes == InitPalettes /\ [][NextPalettes]_vars

----------------------------------------------------------------------------
(* PalettesExplorerApp: init and loadTokens *)

\* The messages of the errors a rejected fetch or text() is drawn from.
ErrorMessages == {Pal.failedToFetch, Pal.loadFailed}

\* The texts the stylesheet is drawn from: an empty one, one with a general
\* ramp and one with a chart ramp only.
PaletteBodies ==
  {<<>>, SheetOf(<<PN.info50, PN.info100>>), SheetOf(<<PN.seqInfo01, PN.seqInfo02>>)}

\* The explorer after its constructor, with the candidates its resolver gives.
InitPaletteLoad ==
  /\ pc = "init"
  /\ mergedCSS = <<>>
  /\ rawMap = <<>>
  /\ groupedTokens = <<>>
  /\ cssPathOverrides = <<>>
  /\ assetCandidates \in {c \in DistinctSeqs(AssetPaths, MaxCandidates) : c # <<>>}
  /\ baseCandidates = <<>>
  /\ turn = 0
  /\ fetchLog = <<>>
  /\ baseCSS = <<>>
  /\ cssResolvedPath = <<>>
  /\ variantCSSParts = <<>>
  /\ requested = <<>>
  /\ loadingState = "none"
  /\ errorBanner = [display |-> "none", text |-> <<>>]
  /\ responseText = <<>>
  /\ paletteDescriptors = <<>>
  /\ copyNotification = [display |-> "", message |-> <<>>, error |-> FALSE]
  /\ notificationTimer = FALSE
  /\ emptyState = ""
  /\ paletteGrid = ""
  /\ consoleErrors = <<>>
  /\ blockText = <<>>
  /\ blockVars = <<>>
  /\ currentTheme = Theme.light
  /\ localStorage = NoItem
  /\ storageThrows = [getItem |-> FALSE, setItem |-> FALSE]
  /\ themeSelector = Theme.light
  /\ dataTheme = NoAttribute
  /\ tokenListTheme = <<>>
  /\ copyPromise = [op \in CopyOperations |-> NotCalled]
  /\ clipboard = <<>>
  /\ tokenNotification = [display |-> "", message |-> <<>>, error |-> FALSE]
  /\ tokenTimers = <<>>
  /\ shown = 0
  /\ buttonText = [hex |-> Copy.hexLabel, looker |-> Copy.lookerLabel]
  /\ buttonTimers = <<>>
  /\ copies = 0
  /\ blockStart = 0
  /\ blockContent = <<>>
  /\ fullPalette = <<>>
  /\ tintCount = 0
  /\ activePalette = <<>>
  /\ tokenList = ""
  /\ tokenEmptyState = ""
  /\ sideNav = <<>>
  /\ searchQuery = <<>>
  /\ locationHash = <<>>
  /\ currentCategory = Pal.general

\* What no step of the palette explorer changes: the state of the token
\* explorer and the candidates.
PaletteFrame ==
  UNCHANGED <<tokenVars, cssPathOverrides, assetCandidates, baseCandidates, baseCSS,
              variantCSSParts, errorBanner, blockState, prefVars, copyVars, extractVars, selectVars, renderedVars, queryVars>>

\* loadTokens throws: its catch hides the loading indicator and throws again,
\* the catch of init logs the error and calls showError, which shows the empty
\* state and the notification, sets the timer that hides the notification and
\* logs the error again.
PaletteLoadThrows(log) ==
  LET message == Pal.failedPrefix \o join(log, Lit.commaSpace)
  IN /\ fetchLog' = log
     /\ loadingState' = "none"
     /\ paletteGrid' = "none"
     /\ emptyState' = "block"
     /\ copyNotification' = [display |-> "block", message |-> Pal.unableToLoad,
                             error |-> TRUE]
     /\ notificationTimer' = TRUE
     /\ consoleErrors' = consoleErrors \o <<message, message>>
     /\ pc' = "failed"
     /\ UNCHANGED <<turn, requested, cssResolvedPath, responseText, paletteDescriptors>>

\* The for loop over the candidates goes on to its next turn and fetches, or
\* is over without a text.
NextPaletteCandidate(log) ==
  IF turn < Len(assetCandidates)
    THEN /\ turn' = turn + 1
         /\ requested' = Append(requested, assetCandidates[turn + 1])
         /\ fetchLog' = log
         /\ pc' = "fetchSheet"
         /\ UNCHANGED <<loadingState, cssResolvedPath, paletteVars>>
    ELSE PaletteLoadThrows(log)

\* render(): the empty state when the current category has no row, the grid
\* otherwise.
renderShows(descriptors, category) ==
  IF ~Has(descriptors, category) \/ Get(descriptors, category) = <<>>
    THEN [paletteGrid |-> "none", emptyState |-> "block"]
    ELSE [paletteGrid |-> "flex", emptyState |-> "none"]

\* init up to the first await of loadTokens.
PaletteStartLoad ==
  /\ pc = "init"
  /\ loadingState' = "flex"
  /\ fetchLog' = <<>>
  /\ turn' = 1
  /\ requested' = Append(requested, assetCandidates[1])
  /\ pc' = "fetchSheet"
  /\ UNCHANGED <<cssResolvedPath, paletteVars>>
  /\ PaletteFrame

\* await fetch(candidate) rejects: the catch logs the message of the error.
SheetFetchRejects ==
  /\ pc = "fetchSheet"
  /\ \E message \in ErrorMessages :
       NextPaletteCandidate(Append(fetchLog, assetCandidates[turn] \o Lit.arrow \o message))
  /\ PaletteFrame

\* await fetch(candidate) resolves: the status is logged; a response that is
\* ok is read, another one ends the turn.
SheetFetchResolves ==
  /\ pc = "fetchSheet"
  /\ \E status \in Statuses :
       LET log == Append(fetchLog, assetCandidates[turn] \o Lit.arrow \o toString(status))
       IN IF ok(status)
            THEN /\ fetchLog' = log
                 /\ pc' = "readSheet"
                 /\ UNCHANGED <<turn, requested, loadingState, cssResolvedPath, paletteVars>>
            ELSE NextPaletteCandidate(log)
  /\ PaletteFrame

\* await response.text() rejects: the catch logs the message of the error.
SheetTextRejects ==
  /\ pc = "readSheet"
  /\ \E message \in ErrorMessages :
       NextPaletteCandidate(Append(fetchLog, assetCandidates[turn] \o Lit.arrow \o message))
  /\ PaletteFrame

\* await response.text() resolves: the loop is left.  An empty text makes
\* loadTokens throw; another one is parsed, and init goes on to render.
SheetTextResolves ==
  /\ pc = "readSheet"
  /\ \E body \in PaletteBodies :
       IF body = <<>>
         THEN PaletteLoadThrows(fetchLog)
         ELSE /\ responseText' = body
              /\ cssResolvedPath' = assetCandidates[turn]
              /\ paletteDescriptors' = parsePaletteDescriptors(body)
              /\ loadingState' = "none"
              /\ paletteGrid' = renderShows(paletteDescriptors', currentCategory).paletteGrid
              /\ emptyState' = renderShows(paletteDescriptors', currentCategory).emptyState
              /\ pc' = "done"
              /\ UNCHANGED <<turn, requested, fetchLog, copyNotification,
                             notificationTimer, consoleErrors>>
  /\ PaletteFrame

\* The timer of showNotification fires: the notification is hidden.
NotificationTimeout ==
  /\ notificationTimer
  /\ copyNotification' = [copyNotification EXCEPT !.display = "none"]
  /\ notificationTimer' = FALSE
  /\ UNCHANGED <<pc, tokenVars, loadVars, responseText, paletteDescriptors, emptyState,
                 paletteGrid, consoleErrors, blockState, prefVars, copyVars, extractVars, selectVars, renderedVars, queryVars>>

NextPaletteLoad ==
  \/ PaletteStartLoad
  \/ SheetFetchRejects
  \/ SheetFetchResolves
  \/ SheetTextRejects
  \/ SheetTextResolves
  \/ NotificationTimeout

SpecPaletteLoad == InitPaletteLoad /\ [][NextPaletteLoad]_vars

----------------------------------------------------------------------------
(* parseCSSVarBlock on drawn block bodies *)

\* The number of segments of a drawn block body.
MaxSegments == 3

Segments ==
  {Seg.a1, Seg.a3, Seg.b2, Seg.color, Seg.noColon, Seg.inner, Seg.emptyValue,
   Seg.newline}

\* The text of a sequence of segments.
RECURSIVE BodyOf(_)
BodyOf(segments) ==
  IF segments = <<>> THEN <<>> ELSE Head(segments) \o BodyOf(Tail(segments))

DrawnBodies == {BodyOf(segments) : segments \in SeqsUpTo(Segments, MaxSegments)}

InitBlock ==
  /\ pc = "block"
  /\ blockText \in DrawnBodies
  /\ blockVars = <<>>
  /\ currentTheme = Theme.light
  /\ localStorage = NoItem
  /\ storageThrows = [getItem |-> FALSE, setItem |-> FALSE]
  /\ themeSelector = Theme.light
  /\ dataTheme = NoAttribute
  /\ tokenListTheme = <<>>
  /\ copyPromise = [op \in CopyOperations |-> NotCalled]
  /\ clipboard = <<>>
  /\ tokenNotification = [display |-> "", message |-> <<>>, error |-> FALSE]
  /\ tokenTimers = <<>>
  /\ shown = 0
  /\ buttonText = [hex |-> Copy.hexLabel, looker |-> Copy.lookerLabel]
  /\ buttonTimers = <<>>
  /\ copies = 0
  /\ blockStart = 0
  /\ blockContent = <<>>
  /\ fullPalette = <<>>
  /\ tintCount = 0
  /\ activePalette = <<>>
  /\ tokenList = ""
  /\ tokenEmptyState = ""
  /\ sideNav = <<>>
  /\ searchQuery = <<>>
  /\ locationHash = <<>>
  /\ currentCategory = Pal.general
  /\ mergedCSS = <<>>
  /\ rawMap = <<>>
  /\ groupedTokens = <<>>
  /\ cssPathOverrides = <<>>
  /\ assetCandidates = <<>>
  /\ baseCandidates = <<>>
  /\ turn = 0
  /\ fetchLog = <<>>
  /\ baseCSS = <<>>
  /\ cssResolvedPath = <<>>
  /\ variantCSSParts = <<>>
  /\ requested = <<>>
  /\ loadingState = "none"
  /\ errorBanner = [display |-> "none", text |-> <<>>]
  /\ responseText = <<>>
  /\ paletteDescriptors = <<>>
  /\ copyNotification = [display |-> "", message |-> <<>>, error |-> FALSE]
  /\ notificationTimer = FALSE
  /\ emptyState = ""
  /\ paletteGrid = ""
  /\ consoleErrors = <<>>

\* this.parseCSSVarBlock(content)
ParseBlock ==
  /\ pc = "block"
  /\ blockVars' = parseCSSVarBlock(blockText)
  /\ pc' = "split"
  /\ UNCHANGED <<blockText, tokenVars, loadVars, paletteVars, prefVars, copyVars, extractVars, selectVars, renderedVars, queryVars>>

NextBlock == ParseBlock

SpecBlock == InitBlock /\ [][NextBlock]_vars

----------------------------------------------------------------------------
(* Restoring and persisting the theme preference *)

\* The items 'prismTokensPrefs' may have when the token explorer starts.
DrawnItems ==
  {NoItem, Item(<<>>), Item(Pref.null), Item(Pref.emptyObject), Item(Pref.unquoted),
   Item(JSONStringify(<<>>)), Item(JSONStringify(Theme.dark)),
   Item(JSONStringify(Theme.highcontrastDark)), Item(JSONStringify(Pref.sepia))}

InitPrefs ==
  /\ pc = "created"
  /\ currentTheme = Theme.light
  /\ localStorage \in DrawnItems
  /\ storageThrows \in [getItem : BOOLEAN, setItem : BOOLEAN]
  /\ themeSelector = Theme.light
  /\ dataTheme = NoAttribute
  /\ tokenListTheme = <<>>
  /\ copyPromise = [op \in CopyOperations |-> NotCalled]
  /\ clipboard = <<>>
  /\ tokenNotification = [display |-> "", message |-> <<>>, error |-> FALSE]
  /\ tokenTimers = <<>>
  /\ shown = 0
  /\ buttonText = [hex |-> Copy.hexLabel, looker |-> Copy.lookerLabel]
  /\ buttonTimers = <<>>
  /\ copies = 0
  /\ blockStart = 0
  /\ blockContent = <<>>
  /\ fullPalette = <<>>
  /\ tintCount = 0
  /\ activePalette = <<>>
  /\ tokenList = ""
  /\ tokenEmptyState = ""
  /\ sideNav = <<>>
  /\ searchQuery = <<>>
  /\ locationHash = <<>>
  /\ currentCategory = Pal.general
  /\ blockText = <<>>
  /\ blockVars = <<>>
  /\ mergedCSS = <<>>
  /\ rawMap = <<>>
  /\ groupedTokens = <<>>
  /\ cssPathOverrides = <<>>
  /\ assetCandidates = <<>>
  /\ baseCandidates = <<>>
  /\ turn = 0
  /\ fetchLog = <<>>
  /\ baseCSS = <<>>
  /\ cssResolvedPath = <<>>
  /\ variantCSSParts = <<>>
  /\ requested = <<>>
  /\ loadingState = "none"
  /\ errorBanner = [display |-> "none", text |-> <<>>]
  /\ responseText = <<>>
  /\ paletteDescriptors = <<>>
  /\ copyNotification = [display |-> "", message |-> <<>>, error |-> FALSE]
  /\ notificationTimer = FALSE
  /\ emptyState = ""
  /\ paletteGrid = ""
  /\ consoleErrors = <<>>

\* What the steps of the theme preference leave alone.
PrefFrame == UNCHANGED <<storageThrows, tokenVars, loadVars, paletteVars, blockState, copyVars, extractVars, selectVars, queryVars>>

\* init(): this.restorePreferences()
RestorePreferences ==
  /\ pc = "created"
  /\ \E restored \in {restorePreferences(currentTheme, themeSelector, localStorage,
                                         storageThrows)} :
       /\ currentTheme' = restored.currentTheme
       /\ themeSelector' = restored.themeSelector
  /\ pc' = "restored"
  /\ UNCHANGED <<localStorage, dataTheme, renderedVars>>
  /\ PrefFrame

\* init() once loadTokensFromCSS has returned: setupEventListeners(),
\* applyTheme(this.currentTheme), updateDisplay().
InitCompletes ==
  /\ pc = "restored"
  /\ dataTheme' = applyTheme(currentTheme)
  /\ renderAllTokens(groupedTokens, currentTheme, searchQuery, locationHash)
  /\ pc' = "ready"
  /\ UNCHANGED <<currentTheme, localStorage, themeSelector>>
  /\ PrefFrame

\* The listener of 'change' on #theme-selector, the user having chosen another
\* option.
ThemeChange ==
  /\ pc = "ready"
  /\ \E i \in 1..Len(availableThemes) :
       /\ availableThemes[i] # themeSelector
       /\ themeSelector' = availableThemes[i]
       /\ currentTheme' = availableThemes[i]
       /\ localStorage' = persistPreferences(availableThemes[i], localStorage, storageThrows)
       /\ dataTheme' = applyTheme(availableThemes[i])
       /\ renderAllTokens(groupedTokens, availableThemes[i], searchQuery, locationHash)
  /\ pc' = "ready"
  /\ PrefFrame

NextPrefs == RestorePreferences \/ InitCompletes \/ ThemeChange

SpecPrefs == InitPrefs /\ [][NextPrefs]_vars

----------------------------------------------------------------------------
(* Copying to the clipboard *)

\* The number of copy operations called in a run.
MaxCopies == 3

\* colors.split(',').join('\n')
hexLines(colors) ==
  join(splitFrom(colors,
                 [i \in 0..(Len(colors) - 1) |-> IF at(colors, i) = "," THEN i + 1 ELSE -1],
                 0),
       <<"\n">>)

\* An async operation that awaits navigator.clipboard.writeText(text).
Writing(name, text) == [call |-> "pending", write |-> "pending", name |-> name, text |-> text]

\* An async operation that returned before any await: its promise is fulfilled,
\* nothing was written.
Returned == [call |-> "fulfilled", write |-> "none", name |-> <<>>, text |-> <<>>]

\* The operation after its clipboard write has settled and its try statement
\* has run to its end.
Settled(op, outcome) == [copyPromise[op] EXCEPT !.call = "fulfilled", !.write = outcome]

InitCopy ==
  /\ pc = "copy"
  /\ copyPromise = [op \in CopyOperations |-> NotCalled]
  /\ clipboard = <<>>
  /\ tokenNotification = [display |-> "", message |-> <<>>, error |-> FALSE]
  /\ tokenTimers = <<>>
  /\ shown = 0
  /\ buttonText = [hex |-> Copy.hexLabel, looker |-> Copy.lookerLabel]
  /\ buttonTimers = <<>>
  /\ copies = 0
  /\ blockStart = 0
  /\ blockContent = <<>>
  /\ fullPalette = <<>>
  /\ tintCount = 0
  /\ activePalette = <<>>
  /\ tokenList = ""
  /\ tokenEmptyState = ""
  /\ sideNav = <<>>
  /\ searchQuery = <<>>
  /\ locationHash = <<>>
  /\ currentCategory = Pal.general
  /\ currentTheme = Theme.light
  /\ localStorage = NoItem
  /\ storageThrows = [getItem |-> FALSE, setItem |-> FALSE]
  /\ themeSelector = Theme.light
  /\ dataTheme = NoAttribute
  /\ tokenListTheme = <<>>
  /\ blockText = <<>>
  /\ blockVars = <<>>
  /\ mergedCSS = <<>>
  /\ rawMap = <<>>
  /\ groupedTokens = <<>>
  /\ cssPathOverrides = <<>>
  /\ assetCandidates = <<>>
  /\ baseCandidates = <<>>
  /\ turn = 0
  /\ fetchLog = <<>>
  /\ baseCSS = <<>>
  /\ cssResolvedPath = <<>>
  /\ variantCSSParts = <<>>
  /\ requested = <<>>
  /\ loadingState = "none"
  /\ errorBanner = [display |-> "none", text |-> <<>>]
  /\ responseText = <<>>
  /\ paletteDescriptors = <<>>
  /\ copyNotification = [display |-> "", message |-> <<>>, error |-> FALSE]
  /\ notificationTimer = FALSE
  /\ emptyState = ""
  /\ paletteGrid = ""
  /\ consoleErrors = <<>>

\* What no copy operation touches.
CopyFrame ==
  UNCHANGED <<pc, tokenVars, loadVars, responseText, paletteDescriptors, emptyState,
              paletteGrid, blockState, prefVars, extractVars, selectVars, renderedVars, queryVars>>

\* A copy operation is called: one that is not awaiting its write, while the
\* run has calls left.
Callable(op) == copyPromise[op].call # "pending" /\ copies < MaxCopies

\* showCopyNotification(message, isError) of the token explorer: the hide timer
\* is set, the timers set earlier stay pending.
showCopyNotification(message, isError) ==
  /\ tokenNotification' = [display |-> "block", message |-> message, error |-> isError]
  /\ shown' = shown + 1
  /\ tokenTimers' = Append(tokenTimers, shown + 1)

\* showNotification(message, isError) of the palette explorer: the timer set
\* earlier is cleared, a new one is set.
showNotification(message, isError) ==
  /\ copyNotification' = [display |-> "block", message |-> message, error |-> isError]
  /\ notificationTimer' = TRUE

\* showSuccess(button, 'Copied!', original)
showSuccess(button) ==
  /\ buttonText' = [buttonText EXCEPT ![button] = Copy.copiedLabel]
  /\ buttonTimers' = Append(buttonTimers, button)

\* The click listener of a token calls copyToken(name, value), both not empty.
CopyTokenCalled ==
  /\ Callable("copyToken")
  /\ copyPromise' = [copyPromise EXCEPT !["copyToken"] = Writing(PN.info50, PV.first)]
  /\ copies' = copies + 1
  /\ UNCHANGED <<clipboard, tokenNotification, tokenTimers, shown, buttonText,
                 buttonTimers, paletteShown>>
  /\ CopyFrame

\* copyToken: writeText has resolved.
CopyTokenResolves ==
  /\ copyPromise["copyToken"].write = "pending"
  /\ clipboard' = copyPromise["copyToken"].text
  /\ showCopyNotification(copyPromise["copyToken"].name \o Copy.copied, FALSE)
  /\ copyPromise' = [copyPromise EXCEPT !["copyToken"] = Settled("copyToken", "fulfilled")]
  /\ UNCHANGED <<buttonText, buttonTimers, copies, paletteShown>>
  /\ CopyFrame

\* copyToken: writeText has rejected; the catch clause runs.
CopyTokenRejects ==
  /\ copyPromise["copyToken"].write = "pending"
  /\ consoleErrors' = Append(consoleErrors, Copy.consoleToken)
  /\ showCopyNotification(Copy.failedToken, TRUE)
  /\ copyPromise' = [copyPromise EXCEPT !["copyToken"] = Settled("copyToken", "rejected")]
  /\ UNCHANGED <<clipboard, buttonText, buttonTimers, copies, copyNotification,
                 notificationTimer, emptyState, paletteGrid>>
  /\ CopyFrame

\* A hide timer of showCopyNotification fires; timers of one delay fire in the
\* order they were set.
TokenTimerFires ==
  /\ tokenTimers # <<>>
  /\ tokenTimers' = Tail(tokenTimers)
  /\ tokenNotification' = [tokenNotification EXCEPT !.display = "none"]
  /\ UNCHANGED <<copyPromise, clipboard, shown, buttonText, buttonTimers, copies,
                 paletteShown>>
  /\ CopyFrame

\* The click listener of a swatch calls copyToClipboard(value); an empty value
\* returns at once.
CopyToClipboardCalled ==
  /\ Callable("copyToClipboard")
  /\ \E value \in {<<>>, PV.first} :
       copyPromise' = [copyPromise EXCEPT !["copyToClipboard"] =
                         IF value = <<>> THEN Returned ELSE Writing(<<>>, value)]
  /\ copies' = copies + 1
  /\ UNCHANGED <<clipboard, tokenNotification, tokenTimers, shown, buttonText,
                 buttonTimers, paletteShown>>
  /\ CopyFrame

\* copyToClipboard: writeText has resolved.
CopyToClipboardResolves ==
  /\ copyPromise["copyToClipboard"].write = "pending"
  /\ clipboard' = copyPromise["copyToClipboard"].text
  /\ showNotification(copyPromise["copyToClipboard"].text \o Copy.copied, FALSE)
  /\ copyPromise' = [copyPromise EXCEPT !["copyToClipboard"] =
                       Settled("copyToClipboard", "fulfilled")]
  /\ UNCHANGED <<tokenNotification, tokenTimers, shown, buttonText, buttonTimers, copies,
                 emptyState, paletteGrid, consoleErrors>>
  /\ CopyFrame

\* copyToClipboard: writeText has rejected; the catch clause runs.
CopyToClipboardRejects ==
  /\ copyPromise["copyToClipboard"].write = "pending"
  /\ consoleErrors' = Append(consoleErrors, Copy.consoleValue)
  /\ showNotification(Copy.failedValue, TRUE)
  /\ copyPromise' = [copyPromise EXCEPT !["copyToClipboard"] =
                       Settled("copyToClipboard", "rejected")]
  /\ UNCHANGED <<clipboard, tokenNotification, tokenTimers, shown, buttonText,
                 buttonTimers, copies, emptyState, paletteGrid>>
  /\ CopyFrame

\* The click listener of the hex button calls copyHexValues(); without colors
\* in the data of the button it returns at once.
CopyHexValuesCalled ==
  /\ Callable("copyHexValues")
  /\ \E colors \in {<<>>, Copy.colors} :
       copyPromise' = [copyPromise EXCEPT !["copyHexValues"] =
                         IF colors = <<>> THEN Returned ELSE Writing(<<>>, hexLines(colors))]
  /\ copies' = copies + 1
  /\ UNCHANGED <<clipboard, tokenNotification, tokenTimers, shown, buttonText,
                 buttonTimers, paletteShown>>
  /\ CopyFrame

\* copyHexValues: writeText has resolved.
CopyHexValuesResolves ==
  /\ copyPromise["copyHexValues"].write = "pending"
  /\ clipboard' = copyPromise["copyHexValues"].text
  /\ showSuccess("hex")
  /\ copyPromise' = [copyPromise EXCEPT !["copyHexValues"] =
                       Settled("copyHexValues", "fulfilled")]
  /\ UNCHANGED <<tokenNotification, tokenTimers, shown, copies, paletteShown>>
  /\ CopyFrame

\* copyHexValues: writeText has rejected; the catch clause logs the error.
CopyHexValuesRejects ==
  /\ copyPromise["copyHexValues"].write = "pending"
  /\ consoleErrors' = Append(consoleErrors, Copy.consoleHex)
  /\ copyPromise' = [copyPromise EXCEPT !["copyHexValues"] =
                       Settled("copyHexValues", "rejected")]
  /\ UNCHANGED <<clipboard, tokenNotification, tokenTimers, shown, buttonText,
                 buttonTimers, copies, copyNotification, notificationTimer, emptyState,
                 paletteGrid>>
  /\ CopyFrame

\* The click listener of the Looker button calls copyLookerSnippet(); without a
\* snippet in the data of the button it returns at once.
CopyLookerSnippetCalled ==
  /\ Callable("copyLookerSnippet")
  /\ \E snippet \in {<<>>, Copy.snippet} :
       copyPromise' = [copyPromise EXCEPT !["copyLookerSnippet"] =
                         IF snippet = <<>> THEN Returned ELSE Writing(<<>>, snippet)]
  /\ copies' = copies + 1
  /\ UNCHANGED <<clipboard, tokenNotification, tokenTimers, shown, buttonText,
                 buttonTimers, paletteShown>>
  /\ CopyFrame

\* copyLookerSnippet: writeText has resolved.
CopyLookerSnippetResolves ==
  /\ copyPromise["copyLookerSnippet"].write = "pending"
  /\ clipboard' = copyPromise["copyLookerSnippet"].text
  /\ showSuccess("looker")
  /\ copyPromise' = [copyPromise EXCEPT !["copyLookerSnippet"] =
                       Settled("copyLookerSnippet", "fulfilled")]
  /\ UNCHANGED <<tokenNotification, tokenTimers, shown, copies, paletteShown>>
  /\ CopyFrame

\* copyLookerSnippet: writeText has rejected; the catch clause logs the error.
CopyLookerSnippetRejects ==
  /\ copyPromise["copyLookerSnippet"].write = "pending"
  /\ consoleErrors' = Append(consoleErrors, Copy.consoleLooker)
  /\ copyPromise' = [copyPromise EXCEPT !["copyLookerSnippet"] =
                       Settled("copyLookerSnippet", "rejected")]
  /\ UNCHANGED <<clipboard, tokenNotification, tokenTimers, shown, buttonText,
                 buttonTimers, copies, copyNotification, notificationTimer, emptyState,
                 paletteGrid>>
  /\ CopyFrame

\* A timer of showSuccess fires: the button has its original text again.
ButtonTimerFires ==
  /\ buttonTimers # <<>>
  /\ buttonText' = [buttonText EXCEPT ![Head(buttonTimers)] =
                      IF Head(buttonTimers) = "hex" THEN Copy.hexLabel ELSE Copy.lookerLabel]
  /\ buttonTimers' = Tail(buttonTimers)
  /\ UNCHANGED <<copyPromise, clipboard, tokenNotification, tokenTimers, shown, copies,
                 paletteShown>>
  /\ CopyFrame

NextCopy ==
  \/ CopyTokenCalled
  \/ CopyTokenResolves
  \/ CopyTokenRejects
  \/ TokenTimerFires
  \/ CopyToClipboardCalled
  \/ CopyToClipboardResolves
  \/ CopyToClipboardRejects
  \/ NotificationTimeout
  \/ CopyHexValuesCalled
  \/ CopyHexValuesResolves
  \/ CopyHexValuesRejects
  \/ CopyLookerSnippetCalled
  \/ CopyLookerSnippetResolves
  \/ CopyLookerSnippetRejects
  \/ ButtonTimerFires

SpecCopy == InitCopy /\ [][NextCopy]_vars

----------------------------------------------------------------------------
(* extractBlockAt on drawn texts *)

\* The number of characters of a drawn text.
MaxChars == 6

\* The texts of braces and other characters.
DrawnBraceTexts == SeqsUpTo({"{", "}", "a"}, MaxChars)

InitExtract ==
  /\ pc = "text"
  /\ mergedCSS \in DrawnBraceTexts
  /\ blockStart \in 0..Len(mergedCSS)
  /\ blockText = <<>>
  /\ blockVars = <<>>
  /\ currentTheme = Theme.light
  /\ localStorage = NoItem
  /\ storageThrows = [getItem |-> FALSE, setItem |-> FALSE]
  /\ themeSelector = Theme.light
  /\ dataTheme = NoAttribute
  /\ tokenListTheme = <<>>
  /\ copyPromise = [op \in CopyOperations |-> NotCalled]
  /\ clipboard = <<>>
  /\ tokenNotification = [display |-> "", message |-> <<>>, error |-> FALSE]
  /\ tokenTimers = <<>>
  /\ shown = 0
  /\ buttonText = [hex |-> Copy.hexLabel, looker |-> Copy.lookerLabel]
  /\ buttonTimers = <<>>
  /\ copies = 0
  /\ blockContent = <<>>
  /\ fullPalette = <<>>
  /\ tintCount = 0
  /\ activePalette = <<>>
  /\ tokenList = ""
  /\ tokenEmptyState = ""
  /\ sideNav = <<>>
  /\ searchQuery = <<>>
  /\ locationHash = <<>>
  /\ currentCategory = Pal.general
  /\ rawMap = <<>>
  /\ groupedTokens = <<>>
  /\ cssPathOverrides = <<>>
  /\ assetCandidates = <<>>
  /\ baseCandidates = <<>>
  /\ turn = 0
  /\ fetchLog = <<>>
  /\ baseCSS = <<>>
  /\ cssResolvedPath = <<>>
  /\ variantCSSParts = <<>>
  /\ requested = <<>>
  /\ loadingState = "none"
  /\ errorBanner = [display |-> "none", text |-> <<>>]
  /\ responseText = <<>>
  /\ paletteDescriptors = <<>>
  /\ copyNotification = [display |-> "", message |-> <<>>, error |-> FALSE]
  /\ notificationTimer = FALSE
  /\ emptyState = ""
  /\ paletteGrid = ""
  /\ consoleErrors = <<>>

\* const content = extractBlockAt(startIdx)
ExtractBlock ==
  /\ pc = "text"
  /\ blockContent' = extractBlockAt(mergedCSS, blockStart)
  /\ pc' = "extracted"
  /\ UNCHANGED <<blockStart, tokenVars, loadVars, paletteVars, blockState, prefVars,
                 copyVars, selectVars, renderedVars, queryVars>>

NextExtract == ExtractBlock

SpecExtract == InitExtract /\ [][NextExtract]_vars

----------------------------------------------------------------------------
(* PaletteManager.selectColorsWithMaxContrast *)

\* The number of colors of a drawn palette: a sequential palette has the
\* steps 1 to 11.
MaxColors == 11

\* The colors the palettes are drawn from, named by their step.
StepColors ==
  <<"01", "02", "03", "04", "05", "06", "07", "08", "09", "10", "11", "12", "13">>

\* palette.indexOf(color), from 0; -1 for a color that is not in the palette.
paletteIndexOf(palette, color) ==
  IF \E i \in 1..Len(palette) : palette[i] = color
    THEN Min({i \in 1..Len(palette) : palette[i] = color}) - 1
    ELSE -1

\* selected.includes(color)
selectedIncludes(selected, color) == \E i \in 1..Len(selected) : selected[i] = color

\* Math.round((i - 1) * (totalColors - 1) / (count - 1)): halves round up.
roundedPosition(i, totalColors, count) ==
  (2 * (i - 1) * (totalColors - 1) + (count - 1)) \div (2 * (count - 1))

\* The inner for loop over the offsets, from `offset` on: the first free color
\* after or before the position is pushed.
RECURSIVE nearestFree(_, _, _, _)
nearestFree(palette, selected, position, offset) ==
  IF offset >= Len(palette) THEN selected
  ELSE IF /\ position + offset < Len(palette)
          /\ ~selectedIncludes(selected, palette[position + offset + 1])
    THEN Append(selected, palette[position + offset + 1])
  ELSE IF /\ position - offset >= 0
          /\ ~selectedIncludes(selected, palette[position - offset + 1])
    THEN Append(selected, palette[position - offset + 1])
  ELSE nearestFree(palette, selected, position, offset + 1)

\* The for loop over i, from i on.
RECURSIVE spreadLoop(_, _, _, _)
spreadLoop(palette, count, selected, i) ==
  IF i >= count THEN selected
  ELSE The({spreadLoop(palette, count,
                       IF ~selectedIncludes(selected, palette[position + 1])
                         THEN Append(selected, palette[position + 1])
                         ELSE nearestFree(palette, selected, position, 1),
                       i + 1)
            : position \in {roundedPosition(i, Len(palette), count)}})

\* `selected` before it is sorted: the first and the last color, then the
\* colors of the loop.
selectedColors(palette, count) ==
  spreadLoop(palette, count,
             IF count >= 2 THEN <<palette[1], palette[Len(palette)]>> ELSE <<>>, 2)

\* selectColorsWithMaxContrast without its last statement: the colors in the
\* order they were selected.
selectColorsUnsorted(palette, count) ==
  IF palette = <<>> THEN <<>>
  ELSE IF count >= Len(palette) THEN palette
  ELSE IF count = 1 THEN <<palette[1]>>
  ELSE selectedColors(palette, count)

\* selectColorsWithMaxContrast(palette, count)
selectColorsWithMaxContrast(palette, count) ==
  IF palette = <<>> THEN <<>>
  ELSE IF count >= Len(palette) THEN palette
  ELSE IF count = 1 THEN <<palette[1]>>
  ELSE The({sortedBy(selected,
                     [i \in 1..Len(selected) |-> paletteIndexOf(palette, selected[i])])
            : selected \in {selectedColors(palette, count)}})

InitSelect ==
  /\ pc = "sequential"
  /\ fullPalette \in {SubSeq(StepColors, 1, n) : n \in 0..MaxColors}
  /\ tintCount \in -1..(MaxColors + 1)
  /\ blockText = <<>>
  /\ blockVars = <<>>
  /\ currentTheme = Theme.light
  /\ localStorage = NoItem
  /\ storageThrows = [getItem |-> FALSE, setItem |-> FALSE]
  /\ themeSelector = Theme.light
  /\ dataTheme = NoAttribute
  /\ tokenListTheme = <<>>
  /\ copyPromise = [op \in CopyOperations |-> NotCalled]
  /\ clipboard = <<>>
  /\ tokenNotification = [display |-> "", message |-> <<>>, error |-> FALSE]
  /\ tokenTimers = <<>>
  /\ shown = 0
  /\ buttonText = [hex |-> Copy.hexLabel, looker |-> Copy.lookerLabel]
  /\ buttonTimers = <<>>
  /\ copies = 0
  /\ blockStart = 0
  /\ blockContent = <<>>
  /\ activePalette = <<>>
  /\ tokenList = ""
  /\ tokenEmptyState = ""
  /\ sideNav = <<>>
  /\ searchQuery = <<>>
  /\ locationHash = <<>>
  /\ currentCategory = Pal.general
  /\ mergedCSS = <<>>
  /\ rawMap = <<>>
  /\ groupedTokens = <<>>
  /\ cssPathOverrides = <<>>
  /\ assetCandidates = <<>>
  /\ baseCandidates = <<>>
  /\ turn = 0
  /\ fetchLog = <<>>
  /\ baseCSS = <<>>
  /\ cssResolvedPath = <<>>
  /\ variantCSSParts = <<>>
  /\ requested = <<>>
  /\ loadingState = "none"
  /\ errorBanner = [display |-> "none", text |-> <<>>]
  /\ responseText = <<>>
  /\ paletteDescriptors = <<>>
  /\ copyNotification = [display |-> "", message |-> <<>>, error |-> FALSE]
  /\ notificationTimer = FALSE
  /\ emptyState = ""
  /\ paletteGrid = ""
  /\ consoleErrors = <<>>

\* processActivePalette, case 'sequential':
\* activePalette = this.paletteManager.selectColorsWithMaxContrast(fullPalette, tintCount)
SelectColors ==
  /\ pc = "sequential"
  /\ activePalette' = selectColorsWithMaxContrast(fullPalette, tintCount)
  /\ pc' = "selected"
  /\ UNCHANGED <<fullPalette, tintCount, tokenVars, loadVars, paletteVars, blockState,
                 prefVars, copyVars, extractVars, renderedVars, queryVars>>

NextSelect == SelectColors

SpecSelect == InitSelect /\ [][NextSelect]_vars

----------------------------------------------------------------------------
(* The pages: init of the token explorer and of the palette explorer, and the
   events their listeners handle *)

\* The items 'prismTokensPrefs' may have when init runs.
StoredItems == {NoItem, Item(JSONStringify(Theme.dark)), Item(JSONStringify(Pref.sepia))}

\* The candidate lists of the token explorer of a page: no cssPath option and
\* one candidate of the resolver.
PageCandidates == {c \in DrawnCandidates : c[1] = <<>> /\ Len(c[2]) = 1}

\* The texts typed into #token-search.
TypedQueries == {<<>>, Nav.typedName, Nav.typedValue, Nav.typedOther}

\* The values of window.location.hash; decodeURIComponent leaves each of them
\* as it is.
DrawnHashes == {<<>>, Nav.spacingHash, Nav.allTokensHash}

\* The values of data-category of the links of the palette sidebar, and one
\* that is no key of paletteDescriptors.
DrawnCategories == {Pal.general, Pal.alpha, Pal.chart, Pal.brand}

InitTool ==
  /\ pc = "created"
  /\ \E c \in PageCandidates : cssPathOverrides = c[1] /\ assetCandidates = c[2]
  /\ localStorage \in StoredItems
  /\ blockText = <<>>
  /\ blockVars = <<>>
  /\ currentTheme = Theme.light
  /\ storageThrows = [getItem |-> FALSE, setItem |-> FALSE]
  /\ themeSelector = Theme.light
  /\ dataTheme = NoAttribute
  /\ tokenListTheme = <<>>
  /\ copyPromise = [op \in CopyOperations |-> NotCalled]
  /\ clipboard = <<>>
  /\ tokenNotification = [display |-> "", message |-> <<>>, error |-> FALSE]
  /\ tokenTimers = <<>>
  /\ shown = 0
  /\ buttonText = [hex |-> Copy.hexLabel, looker |-> Copy.lookerLabel]
  /\ buttonTimers = <<>>
  /\ copies = 0
  /\ blockStart = 0
  /\ blockContent = <<>>
  /\ fullPalette = <<>>
  /\ tintCount = 0
  /\ activePalette = <<>>
  /\ tokenList = ""
  /\ tokenEmptyState = ""
  /\ sideNav = <<>>
  /\ searchQuery = <<>>
  /\ locationHash = <<>>
  /\ currentCategory = Pal.general
  /\ mergedCSS = <<>>
  /\ rawMap = <<>>
  /\ groupedTokens = <<>>
  /\ baseCandidates = <<>>
  /\ turn = 0
  /\ fetchLog = <<>>
  /\ baseCSS = <<>>
  /\ cssResolvedPath = <<>>
  /\ variantCSSParts = <<>>
  /\ requested = <<>>
  /\ loadingState = "none"
  /\ errorBanner = [display |-> "none", text |-> <<>>]
  /\ responseText = <<>>
  /\ paletteDescriptors = <<>>
  /\ copyNotification = [display |-> "", message |-> <<>>, error |-> FALSE]
  /\ notificationTimer = FALSE
  /\ emptyState = ""
  /\ paletteGrid = ""
  /\ consoleErrors = <<>>

\* The load of the token explorer has ended: loadTokensFromCSS has returned.
ToolLoadEnded == pc \in {"done", "failed"} /\ baseCandidates # <<>>

\* init of the palette explorer has ended: with render(), or in its catch.
PaletteInitEnded == pc \in {"done", "failed"} /\ baseCandidates = <<>>

\* The palette explorer has set up its listeners: loadTokens has returned.
PaletteReady == pc = "done" /\ baseCandidates = <<>>

\* What the events of the token explorer leave alone.
ToolEventFrame ==
  UNCHANGED <<tokenVars, loadVars, paletteVars, blockState, copyVars, extractVars,
              selectVars, currentCategory>>

\* What the events of the palette explorer leave alone.
PaletteEventFrame ==
  UNCHANGED <<tokenVars, loadVars, responseText, copyNotification, notificationTimer,
              consoleErrors, blockState, localStorage, storageThrows, copyVars,
              extractVars, selectVars, renderedVars, searchQuery, locationHash>>

\* init going on without updateDisplay(): the views stay as the load left them.
InitContinuesWithoutDisplay ==
  /\ ToolLoadEnded
  /\ dataTheme' = applyTheme(currentTheme)
  /\ pc' = "ready"
  /\ UNCHANGED <<currentTheme, localStorage, storageThrows, themeSelector, searchQuery,
                 locationHash, renderedVars, tokenVars, loadVars, paletteVars, blockState,
                 copyVars, extractVars, selectVars, currentCategory>>

\* TokenExplorerTool.init after `await this.loadTokensFromCSS()`:
\* setupEventListeners(), applyTheme(this.currentTheme), updateDisplay().
InitContinues ==
  /\ ToolLoadEnded
  /\ dataTheme' = applyTheme(currentTheme)
  /\ renderAllTokens(groupedTokens, currentTheme, searchQuery, locationHash)
  /\ pc' = "ready"
  /\ UNCHANGED <<currentTheme, localStorage, storageThrows, themeSelector, searchQuery,
                 locationHash>>
  /\ ToolEventFrame

\* A listener of 'input' that filters this.groupedTokens in place: only the
\* structure of the current theme is kept.
SearchInputFiltersInPlace ==
  /\ pc = "ready"
  /\ \E typed \in TypedQueries :
       /\ toLowerCase(typed) # searchQuery
       /\ searchQuery' = toLowerCase(typed)
       /\ groupedTokens' = <<[k |-> currentTheme, v |-> ObjV(themeTokensOf(groupedTokens, currentTheme))]>>
       /\ renderAllTokens(groupedTokens', currentTheme, searchQuery', locationHash)
  /\ UNCHANGED <<pc, prefVars, locationHash, mergedCSS, rawMap, loadVars, paletteVars,
                 blockState, copyVars, extractVars, selectVars, currentCategory>>

\* The listener of 'input' on #token-search.
SearchInput ==
  /\ pc = "ready"
  /\ \E typed \in TypedQueries :
       /\ toLowerCase(typed) # searchQuery
       /\ searchQuery' = toLowerCase(typed)
       /\ renderAllTokens(groupedTokens, currentTheme, searchQuery', locationHash)
  /\ UNCHANGED <<pc, prefVars, locationHash>>
  /\ ToolEventFrame

\* The listener of 'hashchange' of the token explorer: the sidebar is rendered
\* again.
HashChange ==
  /\ pc = "ready"
  /\ \E hash \in DrawnHashes :
       /\ hash # locationHash
       /\ locationHash' = hash
       /\ sideNav' = renderSidebar(groupedTokens, currentTheme, hash)
  /\ UNCHANGED <<pc, prefVars, searchQuery, tokenListTheme, tokenList, tokenEmptyState>>
  /\ ToolEventFrame

\* render() of the palette explorer for a category.
paletteRender(category) ==
  /\ paletteGrid' = renderShows(paletteDescriptors, category).paletteGrid
  /\ emptyState' = renderShows(paletteDescriptors, category).emptyState
  /\ UNCHANGED paletteDescriptors

\* The listener of 'change' on #theme-selector of the palette explorer.
PaletteThemeChange ==
  /\ PaletteReady
  /\ \E i \in 1..Len(availableThemes) :
       /\ availableThemes[i] # themeSelector
       /\ themeSelector' = availableThemes[i]
       /\ currentTheme' = availableThemes[i]
       /\ dataTheme' = applyTheme(availableThemes[i])
  /\ paletteRender(currentCategory)
  /\ UNCHANGED <<pc, currentCategory>>
  /\ PaletteEventFrame

\* The listener of 'click' on a link of the palette sidebar: nothing for the
\* current category, otherwise the category is selected and rendered.
CategoryClick ==
  /\ PaletteReady
  /\ \E category \in DrawnCategories :
       /\ category # currentCategory
       /\ currentCategory' = category
       /\ paletteRender(category)
  /\ UNCHANGED <<pc, prefVars>>
  /\ PaletteEventFrame

\* The steps of the two init functions.
InitSteps ==
  \/ RestorePreferences
  \/ StartLoad
  \/ BaseFetchRejects
  \/ BaseFetchResolves
  \/ BaseTextRejects
  \/ BaseTextResolves
  \/ VariantFetchFails
  \/ VariantFetchResolves
  \/ VariantTextRejects
  \/ VariantTextResolves
  \/ InitContinues
  \/ PaletteStartLoad
  \/ SheetFetchRejects
  \/ SheetFetchResolves
  \/ SheetTextRejects
  \/ SheetTextResolves

\* The events of the two pages.
PageEvents ==
  \/ ThemeChange
  \/ SearchInput
  \/ HashChange
  \/ PaletteThemeChange
  \/ CategoryClick
  \/ NotificationTimeout

NextPages == InitSteps \/ PageEvents

SpecPages == (InitTool \/ InitPaletteLoad) /\ [][NextPages]_vars

\* The two init functions by themselves: no listener is called before init has
\* set it up.
NextInit == InitSteps \/ NotificationTimeout

SpecInit == (InitTool \/ InitPaletteLoad) /\ [][NextInit]_vars

\* An init function has a step to take: a fetch or a text() to be settled, or
\* statements to go on with.
InitPending ==
  \/ pc \in {"created", "restored", "init", "fetchBase", "readBase", "fetchVariant",
              "readVariant", "fetchSheet", "readSheet"}
  \/ ToolLoadEnded

\* The places an init function goes to, and the turns of its loops.
Places ==
  {"restored", "fetchBase", "readBase", "fetchVariant", "readVariant", "fetchSheet",
   "readSheet", "done", "failed", "ready"}
Turns == 0..(MaxOverrides + MaxCandidates + Len(variantFiles))

\* A step of an init function, by what it does to the place and the turn:
\* every step of InitSteps changes one of the two.
InitAdvances ==
  /\ InitPending
  /\ pc' \in Places
  /\ turn' \in Turns

\* Every fetch and every text() is settled in the end, and a function that can
\* go on does.
FairInit == SpecInit /\ WF_<<pc, turn>>(InitAdvances)

----------------------------------------------------------------------------
(* What the claims about buildGroupedTokens read *)

\* The (category, subcategory) places of the taxonomy in their declared order;
\* a category without subcategories has the empty subcategory.
Slots ==
  << <<Key.Colors, Key.Interactive>>, <<Key.Colors, Key.Background>>,
     <<Key.Colors, Key.Text>>, <<Key.Colors, Key.Icon>>, <<Key.Colors, Key.Border>>,
     <<Key.Colors, Key.Elevation>>, <<Key.Colors, Key.Chart>>,
     <<Key.Colors, Key.Legacy>>,
     <<Key.Gradients, Key.Interactive>>, <<Key.Gradients, Key.General>>,
     <<Key.Typography, <<>> >>, <<Key.Spacing, <<>> >>, <<Key.Shadows, <<>> >>,
     <<Key.BorderRadius, <<>> >>, <<Key.Other, <<>> >> >>

ThemeSet == {availableThemes[i] : i \in 1..Len(availableThemes)}

\* groupedTokens[theme]
GroupedOf(theme) == Prop(groupedTokens, theme).o

\* The object of tokens stored at a place of the taxonomy.
SlotObj(theme, s) ==
  LET category == Prop(GroupedOf(theme), Slots[s][1]).o
  IN IF Slots[s][2] = <<>> THEN category ELSE Prop(category, Slots[s][2]).o

\* The places a property name is stored at.
SlotsOf(theme, name) == {s \in 1..Len(Slots) : Has(SlotObj(theme, s), name)}

\* groupedTokens[theme]['All tokens']
AllTokensOf(theme) == Prop(GroupedOf(theme), Key.AllTokens).o

\* The positions of a key in the 'All tokens' view.
AllPositions(theme, key) ==
  {i \in 1..Len(AllTokensOf(theme)) : AllTokensOf(theme)[i].k = key}

\* The property names (starting with '--') of a theme's effective map.
PropertyNames(theme) ==
  {n \in {effectiveMap(rawMap, theme)[i].k :
            i \in 1..Len(effectiveMap(rawMap, theme))} :
     startsWith(n, Prefix.dashDash)}

\* The string field of a token object.
Field(token, key) == Prop(token.o, key).s

Built == pc = "done"

\* A '--prism-color-' name that no subcategory of Colors takes.
UnplacedColor(name) ==
  /\ startsWith(name, Prefix.prismColor)
  /\ \/ startsWith(name, Prefix.chartCategorical)
     \/ startsWith(name, Prefix.chartSequential)
     \/ /\ ~startsWith(name, Prefix.chart)
        /\ ~startsWith(name, Prefix.interactive)
        /\ ~startsWith(name, Prefix.background)
        /\ ~startsWith(name, Prefix.text)
        /\ ~startsWith(name, Prefix.icon)
        /\ ~startsWith(name, Prefix.border)
        /\ ~startsWith(name, Prefix.outline)
        /\ ~startsWith(name, Prefix.elevation)

\* C1, as claimed: every property of every theme's effective map is stored at
\* exactly one place of the taxonomy; none is left out of every category.
C1_CompleteCoverage ==
  Built => \A theme \in ThemeSet : \A name \in PropertyNames(theme) :
             Cardinality(SlotsOf(theme, name)) = 1

\* C1, amended: every property is stored at no more than one place, and at
\* exactly one unless its name starts with '--prism-color-' and is a
\* categorical or sequential chart color or matches no subcategory prefix of
\* Colors; such a property is in no category and is listed only in 'All tokens'.
C1_CoverageExceptUnplacedColors ==
  Built => \A theme \in ThemeSet : \A name \in PropertyNames(theme) :
             \E slots \in {SlotsOf(theme, name)} :
               /\ Cardinality(slots) <= 1
               /\ (slots = {}) <=> UnplacedColor(name)
               /\ slots = {} =>
                    /\ AllPositions(theme, name) # {}
                    /\ \A i \in AllPositions(theme, name) :
                         Field(AllTokensOf(theme)[i].v, Key.name) = name

C1_Witness ==
  /\ Built
  /\ \E name \in PropertyNames(Theme.dark) : SlotsOf(Theme.dark, name) = {}
  /\ \E name \in PropertyNames(Theme.dark) :
       Cardinality(SlotsOf(Theme.dark, name)) = 1
  /\ N.generalInfo \in PropertyNames(Theme.light)

\* C2: the 'All tokens' view lists every property of the effective map exactly
\* once, under its name, as that property's token, and has no other key.
C2_AllTokensIsTheEffectiveMap ==
  Built => \A theme \in ThemeSet :
    /\ \A name \in PropertyNames(theme) :
         /\ Cardinality(AllPositions(theme, name)) = 1
         /\ \A i \in AllPositions(theme, name) :
              /\ AllTokensOf(theme)[i].v.t = "obj"
              /\ Field(AllTokensOf(theme)[i].v, Key.name) = name
    /\ \A i \in 1..Len(AllTokensOf(theme)) :
         AllTokensOf(theme)[i].k \in PropertyNames(theme)

\* C3: a property stored at an earlier place of the taxonomy precedes, in the
\* 'All tokens' view, every property stored at a later place.
C3_CategoryOrder ==
  Built => \A theme \in ThemeSet : \A p, q \in PropertyNames(theme) :
    \A sp \in SlotsOf(theme, p) : \A sq \in SlotsOf(theme, q) :
      sp < sq => \A i \in AllPositions(theme, p) : \A j \in AllPositions(theme, q) :
                   i < j

\* C4: the properties of one category without subcategories, or of one
\* subcategory, are listed in the 'All tokens' view in ascending order of name.
C4_WithinCategoryOrder ==
  Built => \A theme \in ThemeSet : \A p, q \in PropertyNames(theme) :
    (SlotsOf(theme, p) # {} /\ SlotsOf(theme, p) = SlotsOf(theme, q) /\ StrLess(p, q))
      => \A i \in AllPositions(theme, p) : \A j \in AllPositions(theme, q) : i < j

\* The place Colors/Chart.
ChartSlot == CHOOSE s \in 1..Len(Slots) : Slots[s] = <<Key.Colors, Key.Chart>>

\* C9: no categorical or sequential chart color is a member of Colors/Chart, and
\* every other '--prism-color-chart-' property is.
C9_ChartColorExclusion ==
  Built => \A theme \in ThemeSet :
    /\ \A i \in 1..Len(SlotObj(theme, ChartSlot)) :
         LET name == SlotObj(theme, ChartSlot)[i].k
         IN /\ ~startsWith(name, Prefix.chartCategorical)
            /\ ~startsWith(name, Prefix.chartSequential)
    /\ \A name \in PropertyNames(theme) :
         ( /\ startsWith(name, Prefix.chart)
           /\ ~startsWith(name, Prefix.chartCategorical)
           /\ ~startsWith(name, Prefix.chartSequential) )
           => Has(SlotObj(theme, ChartSlot), name)

C9_Witness ==
  /\ Built
  /\ {N.chartAlias, N.chartCategorical, N.chartSequential}
       \subseteq PropertyNames(Theme.light)
  /\ Keys(SlotObj(Theme.light, ChartSlot)) = <<N.chartAlias>>

\* The places and type tags a theme's grouped structure g gives a property: the
\* places it is stored at, and the type tags of its token there and in the
\* 'All tokens' view.
ClassIn(g, name) ==
  LET all == Prop(g, Key.AllTokens).o
      slotObj(s) == LET category == Prop(g, Slots[s][1]).o
                    IN IF Slots[s][2] = <<>> THEN category
                       ELSE Prop(category, Slots[s][2]).o
      slots == {s \in 1..Len(Slots) : Has(slotObj(s), name)}
  IN [slots |-> slots,
      types |-> {Field(Prop(slotObj(s), name), Key.type) : s \in slots}
                  \cup {Field(all[i].v, Key.type) :
                          i \in {i \in 1..Len(all) : all[i].k = name}}]

\* The grouped structure of the map that holds one property and nothing else.
Alone(name) ==
  groupedOf(Obj(<< <<Key.root, <<[k |-> name, v |-> V.hex]>> >> >>), Theme.light)

\* C10: every effective map that contains a property name gives it the places
\* and the single type tag that the map holding that name alone, bound to
\* another value, gives it; so any two maps that share a name agree on its
\* category, subcategory and type tag, whatever its values and the other
\* properties of the maps.
C10_ClassificationByNameOnly ==
  Built => \A name \in UNION {PropertyNames(theme) : theme \in ThemeSet} :
    \E alone \in {ClassIn(Alone(name), name)} :
      /\ Cardinality(alone.types) = 1
      /\ \A theme \in ThemeSet :
           name \in PropertyNames(theme) => ClassIn(GroupedOf(theme), name) = alone

C10_Witness ==
  /\ Built
  /\ PropertyNames(Theme.light) # PropertyNames(Theme.dark)
  /\ \E name \in PropertyNames(Theme.light) \cap PropertyNames(Theme.dark) :
       /\ Get(effectiveMap(rawMap, Theme.light), name)
            # Get(effectiveMap(rawMap, Theme.dark), name)
       /\ SlotsOf(Theme.light, name) = {ChartSlot}
       /\ SlotsOf(Theme.dark, name) = {ChartSlot}

----------------------------------------------------------------------------
(* What the claims about parseTokensCSS read *)

\* parseTokensCSS has returned.
Parsed == pc \in {"parsed", "done"}

\* The values a theme's output holds for a property: in its category and in
\* the 'All tokens' view, as value and as raw.
ValuesOf(theme, name) ==
  UNION { {Field(Prop(SlotObj(theme, s), name), Key.value),
           Field(Prop(SlotObj(theme, s), name), Key.raw)} : s \in SlotsOf(theme, name) }
    \cup UNION { {Field(AllTokensOf(theme)[i].v, Key.value),
                  Field(AllTokensOf(theme)[i].v, Key.raw)} :
                 i \in AllPositions(theme, name) }

\* The base map and a theme's override map as parseTokensCSS returned them.
RootOf(raw) == IF Has(raw, Key.root) THEN Get(raw, Key.root) ELSE <<>>
OverridesOf(raw, theme) == IF Has(raw, theme) THEN Get(raw, theme) ELSE <<>>

\* The names declared for a theme: those of the base map and of its overrides.
DeclaredNames(theme) ==
  {RootOf(rawMap)[i].k : i \in 1..Len(RootOf(rawMap))}
    \cup {OverridesOf(rawMap, theme)[i].k : i \in 1..Len(OverridesOf(rawMap, theme))}

\* The example of the specification.
ExampleText == TextOf(<<Sel.root, Decl.sm4, Sel.dark, Decl.sm6>>, FALSE)

\* C5: for every theme and every declared property, the value classified for
\* it is the theme's override value when the theme's override map holds the
\* property and the base value otherwise; for the example text theme dark has
\* 6px and theme light has 4px.
C5_OverridePrecedence ==
  Built =>
    /\ \A theme \in ThemeSet : \A name \in DeclaredNames(theme) :
         ValuesOf(theme, name) =
           { IF Has(OverridesOf(rawMap, theme), name)
               THEN Get(OverridesOf(rawMap, theme), name)
               ELSE Get(RootOf(rawMap), name) }
    /\ mergedCSS = ExampleText =>
         /\ ValuesOf(Theme.dark, N.spacing_sm) = {V.px6}
         /\ ValuesOf(Theme.light, N.spacing_sm) = {V.px4}

C5_Witness ==
  /\ Built
  /\ mergedCSS = ExampleText
  /\ Get(RootOf(rawMap), N.spacing_sm) = V.px4
  /\ Get(OverridesOf(rawMap, Theme.dark), N.spacing_sm) = V.px6
  /\ ValuesOf(Theme.dark, N.spacing_sm) = {V.px6}
  /\ ValuesOf(Theme.highcontrastDark, N.spacing_sm) = {V.px4}

\* The cleaned theme name of the selector matched at position i.
themeNameAt(cssText, i) ==
  trim(stripQuotes(slice(cssText, i + Len(Lit.themeSelector),
                         themeMatchEnd(cssText, i) - 1)))

\* The positions, in increasing order, of the selectors that carry
\* [data-theme=T] for the theme name T.
selectorsOf(cssText, T) ==
  ascending({i \in 0..(Len(cssText) - 1) :
               themeMatchEnd(cssText, i) # -1 /\ themeNameAt(cssText, i) = T})

\* The declarations of the blocks at the given positions, merged in this
\* order, a later declaration of a name winning.
RECURSIVE mergedBlocks(_, _, _)
mergedBlocks(cssText, positions, merged) ==
  IF positions = <<>> THEN merged
  ELSE mergedBlocks(cssText, Tail(positions),
         Assign(merged, parseCSSVarBlock(extractBlockAt(cssText, Head(positions)))))

\* C6: the override map of every theme T holds the declarations of all the
\* blocks whose selector carries [data-theme=T], merged in encounter order
\* with the later declaration of a name winning.
C6_EveryThemeBlockMerged ==
  Parsed => \A theme \in ThemeSet :
    selectorsOf(mergedCSS, theme) # <<>> =>
      OverridesOf(rawMap, theme) =
        mergedBlocks(mergedCSS, selectorsOf(mergedCSS, theme), <<>>)

\* The text has no ':root {' block.
NoRootBlock(cssText) ==
  \A i \in 0..(Len(cssText) - 1) : rootMatchEnd(cssText, i) = -1

\* C7: when the text has no ':root {' block the base map returned is empty,
\* whatever else the text holds.
C7_NoRootBlockEmptyBaseMap ==
  (Parsed /\ NoRootBlock(mergedCSS)) => RootOf(rawMap) = <<>>

\* The positions, in increasing order, of the ':root {' selectors of a text.
rootSelectorsOf(cssText) ==
  ascending({i \in 0..(Len(cssText) - 1) : rootMatchEnd(cssText, i) # -1})

\* The declarations of each of the blocks at the given positions.
declarationsOfBlocks(cssText, positions) ==
  [b \in 1..Len(positions) |-> parseCSSVarBlock(extractBlockAt(cssText, positions[b]))]

\* C16: when the text holds several ':root {' blocks, the base map holds every
\* name that one of them declares, with the value of the last block that
\* declares the name.
C16_BaseBlockMerging ==
  pc = "parsed" =>
    The({ Len(blocks) >= 2 =>
            \A b \in 1..Len(blocks) : \A d \in 1..Len(blocks[b]) :
              LET name == blocks[b][d].k
                  last == Max({c \in 1..Len(blocks) : Has(blocks[c], name)})
              IN /\ Has(RootOf(rawMap), name)
                 /\ Get(RootOf(rawMap), name) = Get(blocks[last], name)
          : blocks \in {declarationsOfBlocks(mergedCSS, rootSelectorsOf(mergedCSS))} })

\* A text of two ':root {' blocks that declare one name with two values has
\* been parsed, and the base map holds the value of the second.
C16_Witness ==
  /\ pc = "parsed"
  /\ mergedCSS = TextOf(<<Sel.root, Decl.sm4, Sel.root, Decl.sm6>>, FALSE)
  /\ Get(RootOf(rawMap), N.spacing_sm) = V.px6

\* The entries of a property map, whatever their order.
EntriesOf(map) == {<<map[i].k, map[i].v>> : i \in 1..Len(map)}

\* C27: the base map parseTokensCSS extracts from a stylesheet text (map.root)
\* has the same entries as the one extractCSSVars(text, 'light') extracts
\* (rootVars).
C27_SameBaseMap ==
  pc = "parsed" =>
    EntriesOf(Get(rawMap, Key.root)) = EntriesOf(extractCSSVars(mergedCSS))

----------------------------------------------------------------------------
(* What the claims about loadTokensFromCSS read *)

\* loadTokensFromCSS has returned.
Ended == pc \in {"done", "failed"}

\* The banner shows the diagnostic that lists every attempt.
DiagnosticShown ==
  /\ errorBanner.display = "block"
  /\ errorBanner.text = Lit.failedPrefix \o join(fetchLog, Lit.commaSpace)

\* C8: when the load has ended with a stylesheet fetched (a response that was
\* ok and whose text was read) and that stylesheet yields an empty base map,
\* the diagnostic listing every attempt is shown.
C8_EmptyBaseMapIsALoadFailure ==
  ( /\ Ended
    /\ cssResolvedPath # <<>>
    /\ pc = "done" => RootOf(rawMap) = <<>> )
    => DiagnosticShown

\* The outcomes of a fetch that failed: a status that is not ok, or the marker
\* of a network error.
FailureOutcomes ==
  {toString(status) : status \in {s \in Statuses : ~ok(s)}}
    \cup {SubSeq(Lit.networkErrorSuffix, Len(Lit.arrow) + 1, Len(Lit.networkErrorSuffix))}

\* The candidates of the load, de-duplicated, overrides first.
Candidates == unique(cssPathOverrides \o assetCandidates, <<>>)

\* The load has ended and no response was ok: every fetch was rejected or
\* resolved with a status that is not ok.
EveryFetchFailed ==
  /\ pc = "failed"
  /\ \A i \in 1..Len(fetchLog) :
       \A status \in {s \in Statuses : ok(s)} :
         \A c \in 1..Len(Candidates) :
           fetchLog[i] # Candidates[c] \o Lit.arrow \o toString(status)

\* The texts that list every candidate with a failure outcome, in order.
FailureListings ==
  { Lit.failedPrefix \o
      join([i \in 1..Len(Candidates) |-> Candidates[i] \o Lit.arrow \o outcomes[i]],
           Lit.commaSpace)
    : outcomes \in [1..Len(Candidates) -> FailureOutcomes] }

\* C13: when every candidate fetch of loadTokensFromCSS has failed, by a status
\* that is not ok or by a network error, groupedTokens is still empty (no
\* token for any theme) and the banner is shown with a text that lists every
\* candidate, each with its outcome.
C13_TotalLoadFailure ==
  EveryFetchFailed =>
    /\ groupedTokens = <<>>
    /\ errorBanner.display = "block"
    /\ errorBanner.text \in FailureListings

\* Three candidates were tried; one was rejected and one was answered with a
\* status that is not ok.
C13_Witness ==
  /\ EveryFetchFailed
  /\ Len(Candidates) = 3
  /\ \E i, j \in 1..Len(fetchLog) :
       /\ fetchLog[i] = Candidates[i] \o Lit.networkErrorSuffix
       /\ fetchLog[j] = Candidates[j] \o Lit.arrow \o toString(404)

\* The requests for candidates of the base stylesheet, in the order they were
\* made (the other requests are for variant files).
BaseRequests ==
  LET IsCandidate(url) == \E c \in 1..Len(Candidates) : Candidates[c] = url
  IN SelectSeq(requested, IsCandidate)

\* A candidate responded successfully: its fetch resolved with a response
\* that is ok, and the text of the response was read (the loop is past
\* reading it and has logged no error for it).
Succeeded(candidate) ==
  /\ \E i \in 1..Len(fetchLog) :
       \E status \in {s \in Statuses : ok(s)} :
         fetchLog[i] = candidate \o Lit.arrow \o toString(status)
  /\ \A i \in 1..Len(fetchLog) : fetchLog[i] # candidate \o Lit.networkErrorSuffix
  /\ ~(pc = "readBase" /\ baseCandidates[turn] = candidate)

\* C15: the candidates, de-duplicated and with the overrides first, are
\* requested one at a time in the order of the list; a candidate is requested
\* only when no earlier one has responded successfully, so none is requested
\* after the first success; a load that ends well has the text and the URL of
\* the candidate that succeeded as its stylesheet and its cssResolvedPath; a
\* load ends as failed only if no candidate responded successfully.
C15_FirstMatchWins ==
  /\ Len(BaseRequests) <= Len(Candidates)
  /\ BaseRequests = SubSeq(Candidates, 1, Len(BaseRequests))
  /\ \A i \in 1..Len(BaseRequests) :
       \A j \in 1..(i - 1) : ~Succeeded(Candidates[j])
  /\ pc = "done" =>
       /\ Succeeded(cssResolvedPath)
       /\ cssResolvedPath = BaseRequests[Len(BaseRequests)]
       /\ variantCSSParts # <<>> /\ variantCSSParts[1] = baseCSS
  /\ pc = "failed" => \A c \in 1..Len(Candidates) : ~Succeeded(Candidates[c])

\* The base stylesheet has loaded: the loop over the variant files is in
\* progress or over.
BaseLoaded == pc \in {"fetchVariant", "readVariant", "done"}

\* The URLs of the three variant files beside the resolved base path.
VariantUrls ==
  [i \in 1..Len(variantFiles) |-> dirOf(cssResolvedPath) \o variantFiles[i]]

\* The requests made after those of the base candidates.
VariantRequests ==
  SubSeq(requested,
         (CHOOSE i \in 1..Len(baseCandidates) : baseCandidates[i] = cssResolvedPath) + 1,
         Len(requested))

\* C24: once the base stylesheet has loaded, the three variant files are
\* requested one after another from the directory of the resolved base path,
\* each once and whatever became of the ones before; no outcome of a variant
\* makes the load fail; a theme without an override block has the base map as
\* its effective map.
C24_VariantAttempts ==
  /\ BaseLoaded =>
       /\ errorBanner.display = "none"
       /\ VariantRequests
            = SubSeq(VariantUrls, 1, IF pc = "done" THEN Len(variantFiles) ELSE turn)
  /\ pc = "done" =>
       \A i \in 1..Len(availableThemes) :
         ~Has(rawMap, availableThemes[i]) =>
           /\ effectiveMap(rawMap, availableThemes[i]) = Get(rawMap, Key.root)
           /\ Get(groupedTokens, availableThemes[i]) = Get(groupedTokens, Theme.light)

----------------------------------------------------------------------------
(* Claims about the palette descriptors *)

\* The palette descriptors have been built from the stylesheet text.
Described == pc = "described"

\* The names of the palette sets.
PaletteSets == {Pal.general, Pal.alpha, Pal.chart}

\* The rows of a palette set of the descriptors.
RowsOf(set) == Get(paletteDescriptors, set)

\* The property map the descriptors are built from.
RootVars == extractCSSVars(responseText)

\* The number a step denotes, whatever its padding.
NumericStep(step) == parseInt(step, -1)

\* The sources of the swatches of a row, in the order of the row.
SourcesOf(row) == [i \in 1..Len(row.swatches) |-> row.swatches[i].cssVar]

\* The names of a sequence that are among `kept`, in the order of the sequence.
Restrict(names, kept) ==
  LET Kept(name) == \E i \in 1..Len(kept) : kept[i] = name
  IN SelectSeq(names, Kept)

\* C11: in every family row of the general, alpha and chart sets, each swatch
\* has a numeric step less than or equal to that of the swatch after it, in
\* whatever order the properties were declared; two steps of a row that denote
\* the same number with different padding are compared as equal by the sort.
C11_StepOrdering ==
  Described =>
    \A set \in PaletteSets :
      \A r \in 1..Len(RowsOf(set)) :
        LET swatches == RowsOf(set)[r].swatches
        IN /\ \A i \in 1..(Len(swatches) - 1) :
                NumericStep(swatches[i].step) <= NumericStep(swatches[i + 1].step)
           /\ \A i, j \in 1..Len(swatches) :
                NumericStep(swatches[i].step) = NumericStep(swatches[j].step)
                  => parseNumericStep(swatches[i].step) = parseNumericStep(swatches[j].step)

\* A row of three swatches that were declared in another order than the row
\* shows them in, two of which have the same number under different padding.
C11_Witness ==
  /\ Described
  /\ \E set \in PaletteSets :
       \E r \in 1..Len(RowsOf(set)) :
         LET row == RowsOf(set)[r]
         IN /\ Len(row.swatches) = 3
            /\ Restrict(Keys(RootVars), SourcesOf(row)) # SourcesOf(row)
            /\ \E i \in 1..2 :
                 /\ row.swatches[i].step # row.swatches[i + 1].step
                 /\ NumericStep(row.swatches[i].step) = NumericStep(row.swatches[i + 1].step)

\* The sources of the swatches of all rows of a palette set.
SourcesIn(set) ==
  UNION { {RowsOf(set)[r].swatches[i].cssVar : i \in 1..Len(RowsOf(set)[r].swatches)}
          : r \in 1..Len(RowsOf(set)) }

\* C12: no property is the source of a swatch of the general set and of a
\* swatch of the alpha set; a name that contains '-alpha-' is the source of no
\* general swatch, and a name that does not start with
\* '--prism-color-general-alpha-' is the source of no alpha swatch.
C12_AlphaGeneralExclusivity ==
  Described =>
    The({ /\ general \cap alpha = {}
          /\ \A name \in general : ~includes(name, Pal.alphaInfix)
          /\ \A name \in alpha : startsWith(name, Pal.alphaPrefix)
          : <<general, alpha>> \in {<<SourcesIn(Pal.general), SourcesIn(Pal.alpha)>>} })

\* Both sets have a swatch, and a property with '-alpha-' inside its name and
\* without the alpha prefix was declared.
C12_Witness ==
  /\ Described
  /\ SourcesIn(Pal.general) # {}
  /\ SourcesIn(Pal.alpha) # {}
  /\ \E i \in 1..Len(RootVars) :
       /\ includes(RootVars[i].k, Pal.alphaInfix)
       /\ ~startsWith(RootVars[i].k, Pal.alphaPrefix)

\* The preference list of a palette set.
PreferredOrder(set) ==
  IF set = Pal.general THEN GENERAL_ORDER
  ELSE IF set = Pal.alpha THEN ALPHA_ORDER
  ELSE CHART_ORDER

\* The places of a family in the preference list of a set: none for a family
\* outside the list.
PlacesOf(set, family) ==
  {p \in 1..Len(PreferredOrder(set)) : PreferredOrder(set)[p] = family}

\* C18: in the rows of every palette set, a family of the set's preference
\* list comes before every family outside the list, the families of the list
\* come in the order of the list, and the families outside the list come in
\* the order of their display labels.
C18_RowOrder ==
  Described =>
    \A set \in PaletteSets :
      \A i, j \in 1..Len(RowsOf(set)) :
        i < j =>
          LET a == RowsOf(set)[i]
              b == RowsOf(set)[j]
          IN /\ PlacesOf(set, b.id) # {} =>
                  /\ PlacesOf(set, a.id) # {}
                  /\ Min(PlacesOf(set, a.id)) < Min(PlacesOf(set, b.id))
             /\ (PlacesOf(set, a.id) = {} /\ PlacesOf(set, b.id) = {}) =>
                  /\ a.label = formatLabel(a.id)
                  /\ b.label = formatLabel(b.id)
                  /\ localeCompare(a.label, b.label) <= 0

\* A set of three rows, a family of the preference list and then two families
\* outside it with different labels, the property declared first being shown
\* in the last row.
C18_Witness ==
  /\ Described
  /\ \E set \in PaletteSets :
       /\ Len(RowsOf(set)) = 3
       /\ PlacesOf(set, RowsOf(set)[1].id) # {}
       /\ PlacesOf(set, RowsOf(set)[2].id) = {}
       /\ PlacesOf(set, RowsOf(set)[3].id) = {}
       /\ localeCompare(RowsOf(set)[2].label, RowsOf(set)[3].label) < 0
       /\ Keys(RootVars)[1] = RowsOf(set)[3].swatches[1].cssVar

\* The text after the last `n` characters of the name is cut off a name that
\* starts with the prefix: what stands between the two.
Between(name, prefix, n) == SubSeq(name, Len(prefix) + 1, Len(name) - n)

\* The last two characters of a name.
LastTwo(name) == SubSeq(name, Len(name) - 1, Len(name))

\* A name '--prism-color-chart-sequential-<family>-<2 digits>'.
IsSequentialName(name) ==
  /\ startsWith(name, Pal.sequentialPrefix)
  /\ Len(name) >= Len(Pal.sequentialPrefix) + 4
  /\ name[Len(name) - 2] = "-"
  /\ \A i \in 1..2 : IsDigit(LastTwo(name)[i])
  /\ \A i \in 1..Len(Between(name, Pal.sequentialPrefix, 3)) :
       IsFamilyChar(Between(name, Pal.sequentialPrefix, 3)[i])

\* A name '--prism-color-chart-categorical-<2 digits>'.
IsCategoricalName(name) ==
  /\ startsWith(name, Pal.categoricalPrefix)
  /\ Len(name) = Len(Pal.categoricalPrefix) + 2
  /\ \A i \in 1..2 : IsDigit(LastTwo(name)[i])

\* The places <<row, swatch>> of the chart set whose swatch has the source.
ChartPlacesOf(name) ==
  {<<r, s>> \in (1..Len(RowsOf(Pal.chart))) \X (1..MaxVars + 1) :
     /\ s <= Len(RowsOf(Pal.chart)[r].swatches)
     /\ RowsOf(Pal.chart)[r].swatches[s].cssVar = name}

\* The one chart swatch of a property stands in the row `family` and carries
\* the step, the value and the name of the property.
YieldsOneSwatch(name, value, family) ==
  /\ Cardinality(ChartPlacesOf(name)) = 1
  /\ \A place \in ChartPlacesOf(name) :
       /\ RowsOf(Pal.chart)[place[1]].id = family
       /\ RowsOf(Pal.chart)[place[1]].swatches[place[2]].step = LastTwo(name)
       /\ RowsOf(Pal.chart)[place[1]].swatches[place[2]].fallback = value

\* Every sequential and every categorical property has its one chart swatch.
ChartSwatchOfEveryProperty ==
  \A i \in 1..Len(RootVars) :
    /\ IsSequentialName(RootVars[i].k) =>
         YieldsOneSwatch(RootVars[i].k, RootVars[i].v,
                         Between(RootVars[i].k, Pal.sequentialPrefix, 3))
    /\ IsCategoricalName(RootVars[i].k) =>
         YieldsOneSwatch(RootVars[i].k, RootVars[i].v, Pal.categorical)

\* No property but a sequential or a categorical one has a chart swatch.
ChartSwatchOfNoOtherProperty ==
  \A i \in 1..Len(RootVars) :
    ChartPlacesOf(RootVars[i].k) # {} =>
      IsSequentialName(RootVars[i].k) \/ IsCategoricalName(RootVars[i].k)

\* The stylesheet of the scenario gives the row 'info' with the steps and the
\* values of the two declarations.
ChartScenario ==
  responseText = SheetOf(<<PN.seqInfo01, PN.seqInfo02>>) =>
    /\ Len(RowsOf(Pal.chart)) = 1
    /\ RowsOf(Pal.chart)[1].id = Pal.info
    /\ [s \in 1..Len(RowsOf(Pal.chart)[1].swatches) |->
          <<RowsOf(Pal.chart)[1].swatches[s].step,
            RowsOf(Pal.chart)[1].swatches[s].fallback>>]
         = << <<LastTwo(PN.seqInfo01), PV.first>>, <<LastTwo(PN.seqInfo02), PV.second>> >>

\* C19: every property '--prism-color-chart-sequential-<family>-<2 digits>'
\* yields exactly one swatch in the row <family>, every property
\* '--prism-color-chart-categorical-<2 digits>' exactly one swatch in the row
\* 'categorical', no other property yields a chart swatch, each swatch carries
\* the step, the raw value and the name of its property, and the stylesheet of
\* the scenario gives one row 'info' with the steps '01' and '02'.
C19_ChartConstruction ==
  Described =>
    /\ ChartSwatchOfEveryProperty
    /\ ChartSwatchOfNoOtherProperty
    /\ ChartScenario

----------------------------------------------------------------------------
(* Claims about the loading of the palette explorer *)

\* loadTokens has ended without a response that was ok: every fetch was
\* rejected or resolved with a status that is not ok.
PaletteEveryFetchFailed ==
  /\ pc = "failed"
  /\ \A i \in 1..Len(fetchLog) :
       \A status \in {s \in Statuses : ok(s)} :
         \A c \in 1..Len(assetCandidates) :
           fetchLog[i] # assetCandidates[c] \o Lit.arrow \o toString(status)

\* The attempts of the load, each path with its outcome, as one text.
AttemptsListed == join(fetchLog, Lit.commaSpace)

\* C14: when every candidate fetch of PalettesExplorerApp.loadTokens has
\* failed, a banner is on screen, and stays there, whose text lists every
\* attempted path with its outcome.
C14_FailureBannerListsAttempts ==
  PaletteEveryFetchFailed =>
    /\ copyNotification.display = "block"
    /\ \E from \in 0..Len(copyNotification.message) :
         startsAt(copyNotification.message, AttemptsListed, from)

----------------------------------------------------------------------------
(* Claims about parseCSSVarBlock *)

\* The names of the segments that are declarations: a name that starts with
\* '--', a colon, a value.
DeclarationNames == {<<"-", "-", "a">>, <<"-", "-", "b">>, <<"-", "-", "e">>}

\* C17: every entry of the map parseCSSVarBlock returns has a name that starts
\* with '--' and a value without a semicolon, both trimmed and not empty; a
\* segment without a colon, or whose name does not start with '--', adds no
\* entry.
C17_DeclarationSplitting ==
  pc = "split" =>
    \A i \in 1..Len(blockVars) :
      LET name == blockVars[i].k
          value == blockVars[i].v
      IN /\ startsWith(name, Prefix.dashDash)
         /\ ~includes(value, <<";">>)
         /\ name # <<>> /\ trim(name) = name
         /\ value # <<>> /\ trim(value) = value
         /\ name \in DeclarationNames

\* The segments of a text that its semicolons end, in their order.
SemicolonSegments(text) ==
  splitFrom(text, [i \in 0..(Len(text) - 1) |-> IF at(text, i) = ";" THEN i + 1 ELSE -1], 0)

\* The declaration a segment is: its name starts with '--' and a colon
\* follows, name and value are trimmed; a segment that is none has no name.
DeclarationIn(segment) ==
  The({IF startsWith(line, Prefix.dashDash) /\ indexOf(line, <<":">>, 0) # -1
         THEN [name |-> trim(slice(line, 0, indexOf(line, <<":">>, 0))),
               value |-> trim(slice(line, indexOf(line, <<":">>, 0) + 1, Len(line)))]
         ELSE [name |-> <<>>, value |-> <<>>]
       : line \in {trim(segment)}})

\* The declarations of a block with a name and a value.
DeclarationsIn(block) ==
  SelectSeq([i \in 1..Len(SemicolonSegments(block)) |->
               DeclarationIn(SemicolonSegments(block)[i])],
            LAMBDA d : d.name # <<>> /\ d.value # <<>>)

\* The map has the value of every declaration, of the last one of a name that
\* is declared again.
HoldsEvery(map, declarations) ==
  \A i \in 1..Len(declarations) :
    (\A j \in (i + 1)..Len(declarations) : declarations[j].name # declarations[i].name)
      => /\ Has(map, declarations[i].name)
         /\ Get(map, declarations[i].name) = declarations[i].value

\* What the primary pattern extracts from the block.
PrimaryOf(block) == regexPass(normalizeBlock(block))

\* C23: parseCSSVarBlock applies the fallback splitter if and only if the
\* primary pattern extracted fewer than 500 declarations; when the primary
\* pattern has extracted every declaration of the block, the fallback leaves
\* the map as it is; with 500 or more the result is the primary result alone.
C23_TwoStageParsing ==
  pc = "split" =>
    /\ PrimaryOf(blockText).regexMatches >= FallbackThreshold
         => blockVars = PrimaryOf(blockText).vars
    /\ PrimaryOf(blockText).regexMatches < FallbackThreshold
         => blockVars = fallbackPass(PrimaryOf(blockText).vars,
                                     splitLines(normalizeBlock(blockText)))
    /\ HoldsEvery(PrimaryOf(blockText).vars, DeclarationsIn(blockText))
         => blockVars = PrimaryOf(blockText).vars

----------------------------------------------------------------------------
(* Claims about the theme preference *)

\* The item is the text of a record whose theme is `theme`.
HoldsTheme(item, theme) ==
  /\ item.has
  /\ ~JSONParse(item.value).threw
  /\ JSONParse(item.value).hasTheme
  /\ JSONParse(item.value).theme = theme

\* A step of restorePreferences: a stored theme becomes the current theme
\* unless reading the storage throws, and then the current theme stays.
RestoreStep ==
  /\ \A theme \in {Theme.dark, Theme.highcontrastDark, Pref.sepia} :
       (~storageThrows.getItem /\ HoldsTheme(localStorage, theme))
         => currentTheme' = theme
  /\ storageThrows.getItem => currentTheme' = currentTheme

\* A step of the change listener: the stored record holds the theme chosen
\* unless writing the storage throws; in either case the theme chosen is the
\* current theme, is applied to the document and is the theme rendered.
ChangeStep ==
  /\ ~storageThrows.setItem => HoldsTheme(localStorage', themeSelector')
  /\ currentTheme' = themeSelector'
  /\ IF themeSelector' = Theme.light
       THEN ~dataTheme'.has
       ELSE dataTheme'.has /\ dataTheme'.value = themeSelector'
  /\ tokenListTheme' = themeSelector'

\* C20: after a change of the theme selector the record stored under
\* 'prismTokensPrefs' holds the theme chosen, restorePreferences sets
\* currentTheme to the stored theme, and an exception of the storage on read or
\* on write is ignored: the theme chosen is still applied to the document and
\* the display still rendered for it.
C20_ThemePersistence ==
  [][ /\ (pc = "created" /\ pc' = "restored") => RestoreStep
      /\ (pc = "ready" /\ pc' = "ready") => ChangeStep ]_vars

\* The stored theme 'dark' was restored, the user then chose
\* 'highcontrast-light' and the write threw: the record still holds 'dark',
\* the document and the display have the theme chosen.
C20_Witness ==
  /\ pc = "ready"
  /\ ~storageThrows.getItem
  /\ storageThrows.setItem
  /\ HoldsTheme(localStorage, Theme.dark)
  /\ currentTheme = Theme.highcontrastLight
  /\ dataTheme = Attribute(Theme.highcontrastLight)
  /\ tokenListTheme = Theme.highcontrastLight

\* C28: once restorePreferences has run, and after every change of the theme
\* selector, currentTheme is one of the four availableThemes, and the theme
\* rendered is the current theme.
C28_CurrentThemeIsAvailable ==
  /\ pc \in {"restored", "ready"} =>
       \E i \in 1..Len(availableThemes) : currentTheme = availableThemes[i]
  /\ pc = "ready" => tokenListTheme = currentTheme

----------------------------------------------------------------------------
(* Claims about the copy operations *)

\* The clipboard write of the operation is rejected in this step.
WriteRejected(op) ==
  copyPromise[op].write = "pending" /\ copyPromise'[op].write = "rejected"

\* What the user sees of a failed copy once the step is over: the error
\* notification of the token explorer or of the palette explorer, or a copy
\* button whose text is no longer its label.
FailureOnScreen(op) ==
  IF op = "copyToken"
    THEN tokenNotification'.display = "block" /\ tokenNotification'.error
  ELSE IF op = "copyToClipboard"
    THEN copyNotification'.display = "block" /\ copyNotification'.error
  ELSE IF op = "copyHexValues"
    THEN buttonText'.hex \notin {Copy.hexLabel, Copy.copiedLabel}
  ELSE buttonText'.looker \notin {Copy.lookerLabel, Copy.copiedLabel}

\* C21: in every copy operation a rejected clipboard write is caught, is shown
\* to the user as a notification on screen, and the promise of the operation
\* does not reject.
C21_ClipboardFailureHandling ==
  [][ \A op \in CopyOperations :
        WriteRejected(op) =>
          /\ copyPromise'[op].call = "fulfilled"
          /\ FailureOnScreen(op) ]_vars

\* C30: the notification of the latest call of showCopyNotification is on
\* display for as long as the hide timer that call set is pending, whatever
\* timers of earlier calls fire meanwhile.
C30_NotificationOutlivesEarlierTimers ==
  (tokenTimers # <<>> /\ tokenTimers[Len(tokenTimers)] = shown)
    => tokenNotification.display = "block"

----------------------------------------------------------------------------
(* Claims about extractBlockAt *)

\* The positions (from 0) of the character in the text at or after `from`.
PositionsOf(text, char, from) == {i \in from..(Len(text) - 1) : text[i + 1] = char}

\* The nesting depth after the character at position i, counted from the brace
\* at position `open`.
DepthAt(text, open, i) ==
  Cardinality({j \in PositionsOf(text, "{", open) : j <= i})
    - Cardinality({j \in PositionsOf(text, "}", open) : j <= i})

\* The positions of the closing braces at which the depth is zero.
ClosesOf(text, open) == {i \in PositionsOf(text, "}", open) : DepthAt(text, open, i) = 0}

\* The text strictly between two positions.
TextBetween(text, open, close) == SubSeq(text, open + 2, close)

\* C22: extractBlockAt(start) returns the text strictly between the first '{'
\* at or after start and the '}' at which the depth counted from that '{'
\* first returns to zero; without a '{', or when the depth never returns to
\* zero, it returns the empty text.
C22_BraceDepthExtraction ==
  pc = "extracted" =>
    LET opens == PositionsOf(mergedCSS, "{", blockStart)
    IN IF opens = {} \/ ClosesOf(mergedCSS, Min(opens)) = {}
         THEN blockContent = <<>>
         ELSE blockContent
                = TextBetween(mergedCSS, Min(opens), Min(ClosesOf(mergedCSS, Min(opens))))

\* A body returned with a nested pair of braces in it, from a start after the
\* beginning of the text.
C22_Witness ==
  /\ pc = "extracted"
  /\ blockStart > 0
  /\ \E i, j \in 1..Len(blockContent) :
       i < j /\ blockContent[i] = "{" /\ blockContent[j] = "}"

----------------------------------------------------------------------------
(* Claims about PaletteManager.selectColorsWithMaxContrast *)

\* The items of `selection` are pairwise different items of `palette`, in
\* ascending palette order.
AscendingIn(palette, selection) ==
  /\ \A i \in 1..Len(selection) : paletteIndexOf(palette, selection[i]) >= 0
  /\ \A i, j \in 1..Len(selection) :
       i < j => paletteIndexOf(palette, selection[i]) < paletteIndexOf(palette, selection[j])

\* C29: for a palette of n distinct items, the selection is the whole palette
\* when count >= n, only the first item when count = 1, for 2 <= count < n
\* exactly count distinct items of the palette in ascending palette order that
\* include the first and the last item, and the empty list for count <= 0 or
\* an empty palette.
C29_MaxContrastSelection ==
  pc = "selected" =>
    LET n == Len(fullPalette) IN
      /\ (n = 0 \/ tintCount <= 0) => activePalette = <<>>
      /\ (n > 0 /\ tintCount >= n) => activePalette = fullPalette
      /\ (n > 1 /\ tintCount = 1) => activePalette = <<fullPalette[1]>>
      /\ (2 <= tintCount /\ tintCount < n) =>
           /\ Len(activePalette) = tintCount
           /\ AscendingIn(fullPalette, activePalette)
           /\ activePalette[1] = fullPalette[1]
           /\ activePalette[tintCount] = fullPalette[n]

\* A selection of four of eleven colors: the two colors of the loop were pushed
\* after the last color of the palette and sorted before it.
C29_Witness ==
  /\ pc = "selected"
  /\ Len(fullPalette) = 11
  /\ tintCount = 4
  /\ activePalette = <<"01", "04", "08", "11">>

----------------------------------------------------------------------------
(* Claims about the pages *)

\* A load has completed: loadTokensFromCSS or init of the palette explorer has
\* ended.
LoadCompleted == pc \in {"done", "failed", "ready"}

\* The snapshots a load computes: what was merged, parsed and classified, and
\* the palette descriptors with the text they were parsed from.
snapshots == <<mergedCSS, rawMap, groupedTokens, responseText, paletteDescriptors>>

\* groupedTokens holds the four themes, each with every category of the
\* classified structure.
HoldsEveryTheme ==
  /\ Keys(groupedTokens) = availableThemes
  /\ \A i \in 1..Len(groupedTokens) : Keys(groupedTokens[i].v.o) = Keys(EmptyGrouped)

OneViewOf(contentDisplay, emptyDisplay) ==
  \/ contentDisplay \in {"block", "flex"} /\ emptyDisplay = "none"
  \/ contentDisplay = "none" /\ emptyDisplay = "block"

\* init of the token explorer has completed: the loading indicator is hidden
\* and one view is shown, the empty state after a load that failed.
ToolSettled ==
  /\ pc = "ready"
  /\ loadingState = "none"
  /\ OneViewOf(tokenList, tokenEmptyState)
  /\ errorBanner.display = "block" => tokenEmptyState = "block"

\* init of the palette explorer has completed: the loading indicator is
\* hidden and one view is shown, the empty state after a load that failed.
PaletteSettled ==
  /\ PaletteInitEnded
  /\ loadingState = "none"
  /\ OneViewOf(paletteGrid, emptyState)
  /\ pc = "failed" => emptyState = "block"

====
